---- MODULE Spec2Model ----
(***************************************************************************)
(* A model of the mana_voicebot package of ah2727/telbot: the session      *)
(* state, the skills, the two file stores and MultiDomainBot's turn        *)
(* handling.                                                               *)
(*                                                                         *)
(* Representation.  A Python str is a sequence of code points (naturals).  *)
(* Python's None is the one-element sequence None, a key that a dict does  *)
(* not hold is Absent; neither is a sequence of code points.  A dict with  *)
(* a fixed set of possible keys is a record over those keys.  JSON text is *)
(* modelled by its value: null is JNull, a string is a quote followed by   *)
(* its code points, a key an object does not hold is JMissing.             *)
(***************************************************************************)
EXTENDS Integers, Sequences, FiniteSets, TLC

VARIABLES
    names,              \* ClientsStore._names
    loaded,             \* ClientsStore._loaded
    clients_file,       \* var/clients.json: [exists, data]
    last_add,           \* the argument of the latest ClientsStore.add call
    add_branch,         \* what that call did: "none", "skipped" or "added"
    n_adds,             \* the number of add calls made so far
    state,              \* MultiDomainBot.state, a ConversationState
    history_limit,      \* BotConfig.history_limit
    session_name,       \* SessionStore.session_name
    log_file,           \* var/logs/session_log.txt, a sequence of lines
    snapshot_file,      \* var/sessions/last_session.json
    meta_file,          \* var/sessions/session_meta.json
    clock,              \* the wall clock, in seconds
    pc,                 \* where the process is: "down", "idle", "infer", "unpack"
    user_text,          \* handle_turn's argument
    brain_kind,         \* what the reasoning service did in this turn
    brain_json,         \* what MultiDomainBrain.infer returned
    outcome,            \* of the latest call on the bot: "none", "returned", "raised"
    result,             \* the SkillResult of the latest call, NoResult if none
    turn_start,         \* the state when the latest handle_turn call began
    boundary,           \* the snapshot of the state at the latest turn boundary
    n_turns,            \* handle_turn calls made so far
    n_sessions,         \* MultiDomainBot constructions made so far
    cycle,              \* the latest iteration of a run loop, or direct call
    bot,                \* the VoiceDoctorBot object
    data_dir,           \* the files of VoiceDoctorBot's data directory
    config,             \* the BotConfig values the capture code reads
    mic,                \* the chunks the microphone is still to deliver
    heard,              \* the chunks the callback was called with so far
    audio_queue,        \* audio_queue of the running capture loop
    buffer,             \* buffer of the running capture loop
    total_frames,       \* total_frames of record_push_to_talk
    silence_since,      \* silence_since of the loop, 0 for None
    now,                \* time.time(), in chunk periods
    cpc,                \* where the capture is: "off", "push", "realtime", ...
    audio,              \* what record_push_to_talk returned
    segment,            \* the latest segment run_realtime handed on
    lagged,             \* whether the loop took a chunk later than it arrived
    failed,             \* the device calls of the capture that failed
    taken_at,           \* when the loop took each chunk of buffer, by now
    pending,            \* the transcript and services of the turn being spoken
    echo,               \* the chunks the callback got while is_speaking was set
    first_run,          \* an ended execution of a turn, kept to compare with
    routed,             \* an application of the routing lines of handle_turn
    seeding             \* a start of the bot on a last_session.json of any content

clientVars == <<names, loaded, clients_file, last_add, add_branch, n_adds>>

storeVars == <<session_name, log_file, snapshot_file, meta_file>>

turnVars == <<user_text, brain_kind, brain_json, outcome, result, turn_start>>

botVars ==
    <<state, history_limit, storeVars, clock, pc, turnVars, boundary, n_turns,
      n_sessions>>

\* the variables of the programs other than MultiDomainBot and its stores
doctorVars == <<bot, data_dir>>

captureVars ==
    <<config, mic, heard, audio_queue, buffer, total_frames, silence_since,
      now, cpc, audio, segment, lagged, failed, taken_at, pending, echo>>

\* records of calls made to compare their results
ghostVars == <<first_run, routed, seeding>>

extVars == <<doctorVars, captureVars, ghostVars>>

vars == <<clientVars, botVars, cycle, extVars>>

----------------------------------------------------------------------------
(* Bounds of the model. *)

\* how many ClientsStore.add calls one behaviour makes
MaxAdds == 4

\* the history limits the configurations range over: 0..MaxLimit
MaxLimit == 1

\* how many handle_turn calls one behaviour makes
MaxTurns == 2

\* how many times the bot is constructed in one behaviour
MaxSessions == 2

\* the last second of the wall clock
MaxClock == 2

\* how many times VoiceDoctorBot is constructed in one behaviour
MaxDoctorSessions == 2

\* how many transcripts VoiceDoctorBot answers in one behaviour
MaxDoctorTurns == 1

----------------------------------------------------------------------------
(* Python values. *)

None == <<-1>>

Absent == <<-2>>

\* a Python int n
PyInt(n) == <<-3, n>>

IsInt(x) == Len(x) = 2 /\ x[1] = -3

\* isinstance(x, str)
IsStr(x) == x # None /\ x # Absent /\ ~IsInt(x)

\* bool(x): None, "", 0 and a missing key's default are false
Truthy(x) == x # None /\ x # Absent /\ x # <<>> /\ x # PyInt(0)

\* str(x) of a str, of a one-digit int or of None
PyStr(x) ==
    IF IsInt(x) THEN <<48 + x[2]>>
    ELSE IF x = None THEN <<78, 111, 110, 101>>
    ELSE x

\* the characters str.strip() and the regular expression \s treat as
\* whitespace, restricted to the ones the inputs below use
IsSpace(c) == c \in {9, 10, 13, 32}

RECURSIVE LStrip(_)
LStrip(s) ==
    IF s # <<>> /\ IsSpace(Head(s)) THEN LStrip(Tail(s)) ELSE s

RECURSIVE RStrip(_)
RStrip(s) ==
    IF s # <<>> /\ IsSpace(s[Len(s)])
    THEN RStrip(SubSeq(s, 1, Len(s) - 1))
    ELSE s

\* str.strip()
Strip(s) == RStrip(LStrip(s))

\* the order of Python's str comparison: by code point, a proper prefix first
RECURSIVE StrLess(_, _)
StrLess(a, b) ==
    IF b = <<>> THEN FALSE
    ELSE IF a = <<>> THEN TRUE
    ELSE IF Head(a) # Head(b) THEN Head(a) < Head(b)
    ELSE StrLess(Tail(a), Tail(b))

\* sorted(S) for a set S of str
RECURSIVE Sorted(_)
Sorted(S) ==
    IF S = {} THEN <<>>
    ELSE LET m == CHOOSE x \in S : \A y \in S \ {x} : StrLess(x, y)
         IN  <<m>> \o Sorted(S \ {m})

Range(q) == {q[i] : i \in 1..Len(q)}

----------------------------------------------------------------------------
(* JSON values, as json.dumps writes them and json.loads reads them. *)

JNull == <<110>>

JMissing == <<>>

\* json.dumps of None, of an int or of a str
JDump(x) ==
    IF x = None THEN JNull
    ELSE IF IsInt(x) THEN <<105, x[2]>>
    ELSE <<34>> \o x

\* json.loads of what JDump wrote
JLoad(j) ==
    IF Head(j) = 34 THEN Tail(j)
    ELSE IF Head(j) = 105 THEN PyInt(j[2])
    ELSE None

\* a dict's key in a JSON object: left out when the dict does not hold it
JDumpKey(x) == IF x = Absent THEN JMissing ELSE JDump(x)

JLoadKey(j) == IF j = JMissing THEN Absent ELSE JLoad(j)

JDumpList(q) == [i \in 1..Len(q) |-> JDump(q[i])]

JLoadList(q) == [i \in 1..Len(q) |-> JLoad(q[i])]

----------------------------------------------------------------------------
(* core/state.py: ConversationState and SkillResult.                       *)
(* A domain or an intent is a token (a TLA+ string); TokNone and TokAbsent *)
(* stand for None and for a key the dict does not hold.                    *)

TokNone == "<None>"

TokAbsent == "<absent>"

\* x or default, for a token
TokOr(x, default) == IF x \in {TokNone, TokAbsent, ""} THEN default ELSE x

\* dict.get(key) of a key that holds a str or None
Get(x) == IF x = Absent THEN None ELSE x

\* str(x or "").strip()
StrOrEmpty(x) == IF Truthy(x) THEN Strip(PyStr(x)) ELSE <<>>

\* (x or "").strip() raises AttributeError for a value that is true and
\* not a str
StripRaises(x) == Truthy(x) /\ ~IsStr(x)

\* (x or "").strip(), where it does not raise
StripOrEmpty(x) == IF Truthy(x) THEN Strip(x) ELSE <<>>

\* isinstance(x, str) and x.strip()
NonBlankStr(x) == IsStr(x) /\ Strip(x) # <<>>

\* ConversationState(): the field defaults
NewState ==
    [profile |-> [name |-> None, address |-> None],
     notes |-> <<>>,
     history |-> <<>>,
     reservation_state |-> [appointment |-> Absent],
     sales_state |-> [last_product |-> Absent, last_quantity |-> Absent,
                      notes |-> <<>>],
     produce_state |-> {},
     visitor_state |-> [last_intent |-> TokAbsent, visitor_name |-> Absent,
                        business_type |-> Absent, last_question |-> Absent,
                        last_reply |-> Absent]]

\* an append that stamps the record with the time of day
AppendHistoryStamped(st, role, text) ==
    [st EXCEPT !.history = Append(@, [role |-> role, text |-> text \o <<clock>>])]

\* ConversationState.append_history
AppendHistory(st, role, text) ==
    [st EXCEPT !.history = Append(@, [role |-> role, text |-> text])]

NoResult == [reply |-> None, domain |-> TokNone, intent |-> TokNone]

----------------------------------------------------------------------------
(* data/names.py *)

\* re.sub(r"\s+", " ", s)
RECURSIVE CollapseSpaces(_)
CollapseSpaces(s) ==
    IF s = <<>> THEN <<>>
    ELSE IF IsSpace(Head(s)) THEN <<32>> \o CollapseSpaces(LStrip(s))
    ELSE <<Head(s)>> \o CollapseSpaces(Tail(s))

\* the two replace calls: Arabic yeh and kaf become the Persian letters
PersianLetter(c) ==
    IF c = 1610 THEN 1740 ELSE IF c = 1603 THEN 1705 ELSE c

\* a normalisation that leaves nothing of the name
NormalizeAway(name) == <<>>

\* normalize_persian_name
NormalizePersianName(name) ==
    LET s == Strip(name)
        r == [i \in 1..Len(s) |-> PersianLetter(s[i])]
    IN  CollapseSpaces(r)

----------------------------------------------------------------------------
(* skills: handle(turn_text, state, raw_json) as [state, result].          *)
(* raw_json is a record over the keys the skills read.  The fixed reply    *)
(* texts are abbreviated to their first letter and a serial number.        *)

EmptyPayload ==
    [present |-> TRUE, intent |-> TokAbsent, reply |-> Absent,
     name |-> Absent, address |-> Absent,
     appointment |-> Absent, notes |-> Absent, product |-> Absent,
     quantity |-> Absent, product_name |-> Absent, visitor_name |-> Absent,
     business_type |-> Absent, question |-> Absent, kb_answer |-> Absent]

ReplyAskName == <<1605, 1>>

ReplyAskAddress == <<1605, 2>>

ReplyAskTime == <<1576, 3>>

ReplySalesDefault == <<1583, 4>>

ReplySmallTalkDefault == <<1587, 5>>

ReplyWhyBuy == <<84, 6>>

ReplyGenericPitch == <<84, 7>>

ReplyVisitorKb == <<1583, 8>>

ReplyVisitorFallback == <<1605, 9>>

\* VisitorSkill._build_intro ... _build_closing, by intent
VisitorBuiltReply(intent, visitor_name, question) ==
    IF intent = "intro"
    THEN (IF visitor_name # <<>> THEN visitor_name ELSE <<>>) \o <<1587, 10>>
    ELSE IF intent = "needs"
    THEN (IF visitor_name # <<>> THEN <<1582>> ELSE <<>>) \o <<1576, 11>>
    ELSE IF intent = "product_info" THEN <<84, 12>>
    ELSE IF intent = "pricing" THEN <<1602, 13>>
    ELSE IF intent = "objection"
    THEN (IF question = <<>> THEN <<1606, 14>> ELSE <<1606, 15>>)
    ELSE IF intent = "closing" THEN <<1582, 16>>
    ELSE ReplyVisitorFallback

\* ReservationSkill.handle
ReservationHandle(st, raw) ==
    LET intent == TokOr(raw.intent, "booking")
        reply == StrOrEmpty(raw.reply)
        norm == NormalizePersianName(raw.name)
        s1 == IF NonBlankStr(raw.name) /\ st.profile.name # norm
              THEN [st EXCEPT !.profile.name = norm] ELSE st
        s2 == IF NonBlankStr(raw.address)
                 /\ s1.profile.address # Strip(raw.address)
              THEN [s1 EXCEPT !.profile.address = Strip(raw.address)] ELSE s1
        s3 == IF NonBlankStr(raw.notes)
              THEN [s2 EXCEPT !.notes = Append(@, Strip(raw.notes))] ELSE s2
        s4 == IF NonBlankStr(raw.appointment)
              THEN [s3 EXCEPT !.reservation_state.appointment =
                                  Strip(raw.appointment)]
              ELSE s3
        out == IF reply # <<>> THEN reply
               ELSE IF s4.profile.name = None THEN ReplyAskName
               ELSE IF s4.profile.address = None THEN ReplyAskAddress
               ELSE ReplyAskTime
    IN  [state |-> s4, raised |-> FALSE,
         result |-> [reply |-> out, domain |-> "reservation",
                     intent |-> intent]]

\* a sales skill that does to the state what the reservation skill does
SalesHandleBooking(st, raw) ==
    [ReservationHandle(st, raw) EXCEPT !.result.domain = "sales"]

\* SalesSkill.handle
SalesHandle(st, raw) ==
    LET intent == TokOr(raw.intent, "product_question")
        reply == StrOrEmpty(raw.reply)
        s1 == IF NonBlankStr(raw.product)
              THEN [st EXCEPT !.sales_state.last_product = Strip(raw.product)]
              ELSE st
        s2 == IF Get(raw.quantity) # None
              THEN [s1 EXCEPT !.sales_state.last_quantity = raw.quantity]
              ELSE s1
        s3 == IF NonBlankStr(raw.notes)
              THEN [s2 EXCEPT !.sales_state.notes = Append(@, Strip(raw.notes))]
              ELSE s2
    IN  [state |-> s3, raised |-> FALSE,
         result |-> [reply |-> IF reply # <<>> THEN reply
                               ELSE ReplySalesDefault,
                     domain |-> "sales", intent |-> intent]]

\* SmallTalkSkill.handle
SmallTalkHandle(st, raw) ==
    LET intent == TokOr(raw.intent, "smalltalk")
        reply == StrOrEmpty(raw.reply)
    IN  [state |-> st, raised |-> FALSE,
         result |-> [reply |-> IF reply # <<>> THEN reply
                               ELSE ReplySmallTalkDefault,
                     domain |-> "smalltalk", intent |-> intent]]

\* ProduceSkill.handle: it reads the payload and writes nothing to the state
ProduceHandle(st, raw) ==
    LET intent == TokOr(raw.intent, "pitch")
        reply == StrOrEmpty(raw.reply)
    IN  IF StripRaises(raw.product_name)
        THEN [state |-> st, raised |-> TRUE, result |-> NoResult]
        ELSE [state |-> st, raised |-> FALSE,
              result |-> [reply |-> IF reply # <<>> THEN reply
                                    ELSE IF intent = "why_buy" THEN ReplyWhyBuy
                                    ELSE ReplyGenericPitch,
                          domain |-> "produce", intent |-> intent]]

\* VisitorSkill.handle
VisitorHandle(st, raw) ==
    LET intent == TokOr(raw.intent, "intro")
        visitor_name == StripOrEmpty(raw.visitor_name)
        business_type == StripOrEmpty(raw.business_type)
        main_question == StripOrEmpty(raw.question)
        kb_answer == StripOrEmpty(raw.kb_answer)
        reply == StrOrEmpty(raw.reply)
        out == IF reply # <<>> THEN reply
               ELSE IF kb_answer # <<>> THEN ReplyVisitorKb \o kb_answer
               ELSE VisitorBuiltReply(intent, visitor_name, main_question)
        s1 == IF visitor_name # <<>>
              THEN [st EXCEPT !.profile.name = visitor_name] ELSE st
        vs == [s1.visitor_state EXCEPT
                 !.last_intent = intent,
                 !.visitor_name = IF visitor_name # <<>> THEN visitor_name
                                  ELSE @,
                 !.business_type = IF business_type # <<>> THEN business_type
                                   ELSE @,
                 !.last_question = IF main_question # <<>> THEN main_question
                                   ELSE @,
                 !.last_reply = out]
    IN  IF \/ StripRaises(raw.product_name) \/ StripRaises(raw.visitor_name)
           \/ StripRaises(raw.business_type) \/ StripRaises(raw.question)
           \/ StripRaises(raw.kb_answer)
        THEN [state |-> st, raised |-> TRUE, result |-> NoResult]
        ELSE [state |-> [s1 EXCEPT !.visitor_state = vs], raised |-> FALSE,
              result |-> [reply |-> out, domain |-> "visitor",
                          intent |-> intent]]

----------------------------------------------------------------------------
(* persistence/file_store.py *)

\* "session-" and time.strftime("%Y%m%d-%H%M%S") at second t
SessionNameAt(t) == <<115, 45, t>>

\* what json.dumps writes for a per-domain dict: the keys it holds
DumpReservation(d) == [appointment |-> JDumpKey(d.appointment)]

DumpSales(d) ==
    [last_product |-> JDumpKey(d.last_product),
     last_quantity |-> JDumpKey(d.last_quantity),
     notes |-> JDumpList(d.notes)]

DumpVisitor(d) ==
    [last_intent |-> d.last_intent,
     visitor_name |-> JDumpKey(d.visitor_name),
     business_type |-> JDumpKey(d.business_type),
     last_question |-> JDumpKey(d.last_question),
     last_reply |-> JDumpKey(d.last_reply)]

\* what json.loads reads back
LoadReservation(j) == [appointment |-> JLoadKey(j.appointment)]

LoadSales(j) ==
    [last_product |-> JLoadKey(j.last_product),
     last_quantity |-> JLoadKey(j.last_quantity),
     notes |-> JLoadList(j.notes)]

LoadVisitor(j) ==
    [last_intent |-> j.last_intent,
     visitor_name |-> JLoadKey(j.visitor_name),
     business_type |-> JLoadKey(j.business_type),
     last_question |-> JLoadKey(j.last_question),
     last_reply |-> JLoadKey(j.last_reply)]

\* the dict save_snapshot builds, as the JSON text written to the file
Snapshot(session, st) ==
    [exists |-> TRUE,
     session |-> JDump(session),
     profile |-> [name |-> JDump(st.profile.name),
                  address |-> JDump(st.profile.address)],
     notes |-> JDumpList(st.notes),
     reservation |-> DumpReservation(st.reservation_state),
     sales |-> DumpSales(st.sales_state),
     produce |-> st.produce_state,
     visitor |-> DumpVisitor(st.visitor_state)]

\* no last_session.json
NoSnapshot == [Snapshot(None, NewState) EXCEPT !.exists = FALSE]

NoMeta == [exists |-> FALSE, session_name |-> None, started_at |-> 0]

\* the line log_turn writes: the tag is role(domain:intent), role(domain)
\* or role
LogLine(session, role, text, domain, intent) ==
    [session |-> session, role |-> role,
     domain |-> TokOr(domain, ""),
     intent |-> IF TokOr(domain, "") = "" THEN "" ELSE TokOr(intent, ""),
     text |-> text]

\* a mutant of log_turn: the file is rewritten with the new line first
LogTurnPrepend(log, session, role, text, domain, intent) ==
    IF session = None THEN log
    ELSE <<LogLine(session, role, text, domain, intent)>> \o log

\* SessionStore.log_turn: the log after the call
LogTurn(log, session, role, text, domain, intent) ==
    IF session = None THEN log
    ELSE Append(log, LogLine(session, role, text, domain, intent))

----------------------------------------------------------------------------
(* core/orchestrator.py: the helpers *)

\* history[-limit:]
LastRecords(h, limit) ==
    IF limit = 0 THEN h
    ELSE IF limit > 0
         THEN SubSeq(h, IF Len(h) > limit THEN Len(h) - limit + 1 ELSE 1,
                     Len(h))
         ELSE SubSeq(h, 1 - limit, Len(h))

\* MultiDomainBot._clamp_history
ClampHistory(st, limit) ==
    IF Len(st.history) > limit
    THEN [st EXCEPT !.history = LastRecords(@, limit)]
    ELSE st

\* a mutant of _seed_state_from_snapshot: the sales state is not copied
SeedWithoutSales(st, snap) ==
    LET name == JLoad(snap.profile.name)
        address == JLoad(snap.profile.address)
    IN  [st EXCEPT
           !.profile.name = IF IsStr(name) THEN name ELSE @,
           !.profile.address = IF IsStr(address) THEN address ELSE @,
           !.notes = [i \in 1..Len(snap.notes) |-> PyStr(JLoad(snap.notes[i]))],
           !.visitor_state = LoadVisitor(snap.visitor),
           !.reservation_state = LoadReservation(snap.reservation)]

\* MultiDomainBot._seed_state_from_snapshot, for a snapshot this program
\* wrote: profile, notes, visitor, reservation and sales are copied
SeedStateFromSnapshot(st, snap) ==
    LET name == JLoad(snap.profile.name)
        address == JLoad(snap.profile.address)
    IN  [st EXCEPT
           !.profile.name = IF IsStr(name) THEN name ELSE @,
           !.profile.address = IF IsStr(address) THEN address ELSE @,
           !.notes = [i \in 1..Len(snap.notes) |-> PyStr(JLoad(snap.notes[i]))],
           !.visitor_state = LoadVisitor(snap.visitor),
           !.reservation_state = LoadReservation(snap.reservation),
           !.sales_state = LoadSales(snap.sales)]

\* the state __init__ builds: seeded from last_session.json when it exists
SeededState ==
    IF snapshot_file.exists
    THEN SeedStateFromSnapshot(NewState, snapshot_file)
    ELSE NewState

----------------------------------------------------------------------------
(* core/brain.py: what MultiDomainBrain.infer returns.  An interpretation  *)
(* is a record over the top-level keys the orchestrator reads; a key that  *)
(* the object does not hold is TokAbsent, Absent or a payload that is not  *)
(* present, and extra counts its other keys.                               *)

NoPayload == [EmptyPayload EXCEPT !.present = FALSE]

EmptyJson ==
    [domain |-> TokAbsent, intent |-> TokAbsent, reply |-> Absent,
     reservation |-> NoPayload, sales |-> NoPayload, smalltalk |-> NoPayload,
     produce |-> NoPayload, visitor |-> NoPayload, extra |-> 0]

FallbackReply == <<1583, 17>>

\* MultiDomainBrain._fallback_json; its "produce" value is a ProduceSkill
\* object, which no caller reads because the domain is "smalltalk"
FallbackJson(reply) ==
    [domain |-> "smalltalk", intent |-> "smalltalk", reply |-> reply,
     reservation |-> [EmptyPayload EXCEPT !.name = None, !.address = None,
                                          !.appointment = None, !.notes = None],
     sales |-> [EmptyPayload EXCEPT !.product = None, !.quantity = None,
                                    !.notes = None],
     smalltalk |-> [EmptyPayload EXCEPT !.intent = "smalltalk"],
     produce |-> EmptyPayload,
     visitor |-> NoPayload,
     extra |-> 0]

\* len(brain_json): the number of keys of the dict
NumKeys(j) ==
    (IF j.domain # TokAbsent THEN 1 ELSE 0)
    + (IF j.intent # TokAbsent THEN 1 ELSE 0)
    + (IF j.reply # Absent THEN 1 ELSE 0)
    + (IF j.reservation.present THEN 1 ELSE 0)
    + (IF j.sales.present THEN 1 ELSE 0)
    + (IF j.smalltalk.present THEN 1 ELSE 0)
    + (IF j.produce.present THEN 1 ELSE 0)
    + (IF j.visitor.present THEN 1 ELSE 0)
    + j.extra

\* the JSON objects the reasoning service answers with
BrainDicts ==
    { \* {"domain": "reservation", "reservation": {"name": ..., "reply": ...}}
      [EmptyJson EXCEPT !.domain = "reservation",
                        !.reservation = [EmptyPayload EXCEPT
                                           !.name = <<32, 1593, 1604, 1610>>,
                                           !.reply = <<79, 75>>]],
      \* {"domain": "unknown_xyz", "intent": "chat", "reply": "OK"}
      [EmptyJson EXCEPT !.domain = "unknown_xyz", !.intent = "chat",
                        !.reply = <<79, 75>>],
      \* {"reply": "OK"}
      [EmptyJson EXCEPT !.reply = <<79, 75>>],
      \* {"domain": "sales", "intent": "order", "reply": "", "sales": {...}}
      [EmptyJson EXCEPT !.domain = "sales", !.intent = "order",
                        !.reply = <<>>,
                        !.sales = [EmptyPayload EXCEPT !.product = <<66>>,
                                                       !.quantity = PyInt(2)]] }

\* the answers of the reasoning service that are not a JSON object
BrainBlobs == { <<110, 111>> }

\* what the user says
UserTexts == { <<72>>, <<72, 73>> }

----------------------------------------------------------------------------
(* io/asr.py and io/voice_io.py: what VoiceIO.record gives the run loop.   *)
(* An answer of the transcription service is the text it returns, None, or *)
(* ApiError when the call raises OpenAIError.                              *)

ApiError == <<-4>>

\* what the transcription service answers
AsrAnswers == { ApiError, None, <<72>>, <<32>> }

\* ASR._via_audio_endpoint(model): (result.text or "").strip(); an error of
\* the call is not caught
ViaAudioEndpoint(answer) ==
    IF answer = ApiError
    THEN [raised |-> TRUE, text |-> <<>>]
    ELSE [raised |-> FALSE, text |-> StripOrEmpty(answer)]

\* ASR.transcribe.  endpoint is "audio" when the name of the transcription
\* model holds "transcribe" or "whisper", and "responses" otherwise;
\* primary and fallback are the answers of the service for the two models.
\* calls lists the requests made.
Transcribe(endpoint, primary, fallback) ==
    IF endpoint = "audio"
    THEN ViaAudioEndpoint(primary) @@ [calls |-> <<"primary">>]
    ELSE IF primary # ApiError
         THEN [raised |-> FALSE, text |-> StripOrEmpty(primary),
               calls |-> <<"primary">>]
         ELSE ViaAudioEndpoint(fallback) @@ [calls |-> <<"primary", "fallback">>]

\* what AudioCapture.record_push_to_talk gives VoiceIO.record: an empty
\* array, an array with samples, or an exception
CaptureOutcomes == { "empty", "audio", "raised" }

\* ASR.transcribe takes the audio endpoint when the name of the
\* transcription model holds "transcribe" or "whisper", else the responses
\* endpoint
Endpoints == { "audio", "responses" }

\* VoiceIO.record: no transcription of an empty array
VoiceRecord(capture, endpoint, primary, fallback) ==
    IF capture = "raised"
    THEN [raised |-> TRUE, text |-> <<>>, calls |-> <<>>]
    ELSE IF capture = "empty"
         THEN [raised |-> FALSE, text |-> <<>>, calls |-> <<>>]
         ELSE Transcribe(endpoint, primary, fallback)

----------------------------------------------------------------------------
(* The iterations of the run loops. *)

\* no iteration yet
NoCycle ==
    [kind |-> "none", source |-> "none", capture |-> "none",
     endpoint |-> "none", primary |-> "none", fallback |-> "none",
     speak |-> "none", reason |-> "none"]

\* a direct call of handle_turn
CallCycle == [NoCycle EXCEPT !.kind = "turn", !.source = "call"]

\* an exception leaves handle_turn: the run loops do not catch it
Uncaught(c) ==
    IF c.source \in {"text", "voice"} THEN [c EXCEPT !.kind = "crashed"] ELSE c

\* "ok" or "error" for a request that was made, "none" for one that was not
AnswerKind(calls, model, answer) ==
    IF \A i \in 1..Len(calls) : calls[i] # model THEN "none"
    ELSE IF answer = ApiError THEN "error" ELSE "ok"

\* what the user types at the prompt of loop_text_only
TypedLines == { <<>>, <<32>>, <<72, 32>>, <<81>> }

\* txt.lower() == "q"
IsQuit(txt) == txt \in { <<113>>, <<81>> }

----------------------------------------------------------------------------
(* core/orchestrator.py: MultiDomainBot *)

\* no clients.json
NoClientsFile == [exists |-> FALSE, data |-> <<>>]

\* MultiDomainBot.__init__: a new state, seeded from the last snapshot; a
\* new ClientsStore; SessionStore.start_new_session, which names the
\* session after the clock, logs the header, writes the metadata and saves
\* the first snapshot
Construct ==
    /\ pc = "down"
    /\ n_sessions < MaxSessions
    /\ n_sessions' = n_sessions + 1
    /\ state' = SeededState
    /\ names' = {}
    /\ loaded' = FALSE
    /\ last_add' = None
    /\ add_branch' = "none"
    /\ session_name' = SessionNameAt(clock)
    /\ log_file' = Append(log_file,
                          LogLine(session_name', "session", <<clock>>,
                                  TokNone, TokNone))
    /\ meta_file' = [exists |-> TRUE, session_name |-> session_name',
                     started_at |-> clock]
    /\ snapshot_file' = Snapshot(session_name', state')
    /\ boundary' = Snapshot(session_name', state')
    /\ pc' = "idle"
    /\ outcome' = "none"
    /\ result' = NoResult
    /\ user_text' = None
    /\ brain_kind' = "none"
    /\ brain_json' = EmptyJson
    /\ turn_start' = state'
    /\ cycle' = NoCycle
    /\ UNCHANGED <<clients_file, n_adds, history_limit, clock, n_turns>>
    /\ UNCHANGED extVars

\* a second passes
Tick ==
    /\ clock < MaxClock
    /\ clock' = clock + 1
    /\ UNCHANGED <<clientVars, state, history_limit, storeVars, pc, turnVars,
                   boundary, n_turns, n_sessions>>
    /\ UNCHANGED <<cycle, extVars>>

\* the process ends: the loop is left, an exception is not caught, or the
\* process is stopped; what it held in memory is gone, the files stay
Exit ==
    /\ pc # "down"
    /\ pc' = "down"
    /\ state' = NewState
    /\ brain_kind' = IF pc = "infer" THEN "stopped" ELSE brain_kind
    /\ brain_json' = EmptyJson
    /\ result' = NoResult
    /\ turn_start' = NewState
    /\ cycle' = NoCycle
    /\ UNCHANGED <<clientVars, history_limit, storeVars, clock, user_text,
                   outcome, boundary, n_turns, n_sessions>>
    /\ UNCHANGED extVars

\* a mutant of handle_turn: the user line is not logged before the
\* reasoning call
HT_BeginLogLater(text) ==
    /\ pc = "idle"
    /\ cycle.kind # "crashed"
    /\ n_turns < MaxTurns
    /\ n_turns' = n_turns + 1
    /\ state' = ClampHistory(AppendHistory(state, "user", text),
                             history_limit)
    /\ pc' = "infer"
    /\ user_text' = text
    /\ turn_start' = state
    /\ outcome' = "none"
    /\ result' = NoResult
    /\ brain_kind' = "none"
    /\ brain_json' = EmptyJson
    /\ UNCHANGED <<clientVars, history_limit, storeVars, clock, boundary,
                   n_sessions>>
    /\ UNCHANGED extVars

\* a mutant of handle_turn: a snapshot is saved as soon as the user record
\* is in the history
HT_BeginSaving(text) ==
    /\ pc = "idle"
    /\ cycle.kind # "crashed"
    /\ n_turns < MaxTurns
    /\ n_turns' = n_turns + 1
    /\ state' = ClampHistory(AppendHistory(state, "user", text),
                             history_limit)
    /\ log_file' = LogTurn(log_file, session_name, "user", text,
                           TokNone, TokNone)
    /\ snapshot_file' = Snapshot(session_name, state')
    /\ pc' = "infer"
    /\ user_text' = text
    /\ turn_start' = state
    /\ outcome' = "none"
    /\ result' = NoResult
    /\ brain_kind' = "none"
    /\ brain_json' = EmptyJson
    /\ UNCHANGED <<clientVars, history_limit, session_name, meta_file, clock,
                   boundary, n_sessions>>
    /\ UNCHANGED extVars

\* handle_turn, lines 62-64: the user record is appended, the history is
\* clamped, the user line is logged
HT_Begin(text) ==
    /\ pc = "idle"
    /\ cycle.kind # "crashed"
    /\ n_turns < MaxTurns
    /\ n_turns' = n_turns + 1
    /\ state' = ClampHistory(AppendHistory(state, "user", text),
                             history_limit)
    /\ log_file' = LogTurn(log_file, session_name, "user", text,
                           TokNone, TokNone)
    /\ pc' = "infer"
    /\ user_text' = text
    /\ turn_start' = state
    /\ outcome' = "none"
    /\ result' = NoResult
    /\ brain_kind' = "none"
    /\ brain_json' = EmptyJson
    /\ UNCHANGED <<clientVars, history_limit, session_name, snapshot_file,
                   meta_file, clock, boundary, n_sessions>>
    /\ UNCHANGED extVars

\* MultiDomainBrain.infer returns: the parsed object, or the fallback
\* object when the text is no JSON object or the call raised OpenAIError
HT_Infer ==
    /\ pc = "infer"
    /\ \/ \E d \in BrainDicts :
             brain_kind' = "dict" /\ brain_json' = d
       \/ \E blob \in BrainBlobs :
             brain_kind' = "not_json" /\ brain_json' = FallbackJson(blob)
       \/ brain_kind' = "api_error" /\ brain_json' = FallbackJson(FallbackReply)
    /\ pc' = "unpack"
    /\ UNCHANGED <<clientVars, state, history_limit, storeVars, clock,
                   user_text, outcome, result, turn_start, boundary, n_turns,
                   n_sessions>>
    /\ UNCHANGED <<cycle, extVars>>

\* MultiDomainBrain.infer raises something that is no OpenAIError: it
\* leaves handle_turn
HT_InferRaises ==
    /\ pc = "infer"
    /\ brain_kind' = "other_error"
    /\ outcome' = "raised"
    /\ pc' = "idle"
    /\ cycle' = Uncaught(cycle)
    /\ UNCHANGED <<clientVars, state, history_limit, storeVars, clock,
                   user_text, brain_json, result, turn_start, boundary,
                   n_turns, n_sessions>>
    /\ UNCHANGED extVars

\* handle_turn, line 67: "brain_json, usage = <dict>" iterates the dict's
\* keys.  With other than two keys it raises ValueError; with two keys
\* brain_json is the first key, a str, and brain_json.get on the next line
\* raises AttributeError.  Either way the call ends here.
HT_Unpack ==
    /\ pc = "unpack"
    /\ outcome' = "raised"
    /\ pc' = "idle"
    /\ cycle' = Uncaught(cycle)
    /\ UNCHANGED <<clientVars, state, history_limit, storeVars, clock,
                   user_text, brain_kind, brain_json, result, turn_start,
                   boundary, n_turns, n_sessions>>
    /\ UNCHANGED extVars

\* _start_visitor_intro, called once before the first turn of a visitor
\* loop: the visitor skill handles intent "intro", its reply is appended
\* and the history clamped; log_turn(..., usage=None) then raises TypeError,
\* log_turn taking no such argument, so nothing is logged or spoken
StartVisitorIntro ==
    /\ pc = "idle"
    /\ outcome = "none"
    /\ cycle.kind = "none"
    /\ cycle' = [NoCycle EXCEPT !.kind = "intro", !.source = "call"]
    /\ LET r == VisitorHandle(state,
                              [EmptyPayload EXCEPT
                                 !.intent = "intro",
                                 !.product_name = <<84>>,
                                 !.visitor_name = state.profile.name])
       IN  state' = ClampHistory(
                        AppendHistory(r.state, "assistant", r.result.reply),
                        history_limit)
    /\ outcome' = "raised"
    /\ UNCHANGED <<clientVars, history_limit, storeVars, clock, pc, user_text,
                   brain_kind, brain_json, result, turn_start, boundary,
                   n_turns, n_sessions>>
    /\ UNCHANGED extVars

\* the loop is left for good: by "q", or by an exception no one catches
LeaveLoop(c) ==
    /\ pc' = "down"
    /\ state' = NewState
    /\ cycle' = c
    /\ UNCHANGED <<clientVars, history_limit, storeVars, clock, turnVars,
                   boundary, n_turns, n_sessions>>
    /\ UNCHANGED extVars

\* a mutant of the loops: the user line is logged before the text is
\* looked at
NoInputLogged(c) ==
    /\ cycle' = c
    /\ log_file' = LogTurn(log_file, session_name, "user", <<>>,
                           TokNone, TokNone)
    /\ UNCHANGED <<clientVars, state, history_limit, session_name,
                   snapshot_file, meta_file, clock, pc, turnVars, boundary,
                   n_turns, n_sessions>>
    /\ UNCHANGED extVars

\* the iteration reads nothing and goes back to the prompt or the microphone
NoInput(c) ==
    /\ cycle' = c
    /\ UNCHANGED <<clientVars, botVars>>
    /\ UNCHANGED extVars

\* one iteration of loop_text_only: a line is read and stripped; "q" ends
\* the loop, an empty line is skipped, any other goes to handle_turn
LoopTextOnly ==
    /\ pc = "idle"
    /\ cycle.kind \notin {"crashed", "intro"}
    /\ \E line \in TypedLines :
          LET txt == Strip(line)
              c   == [NoCycle EXCEPT !.source = "text"]
          IN  IF IsQuit(txt) THEN LeaveLoop([c EXCEPT !.kind = "quit"])
              ELSE IF txt = <<>> THEN NoInput([c EXCEPT !.kind = "no_input"])
              ELSE HT_Begin(txt) /\ cycle' = [c EXCEPT !.kind = "turn"]

\* one iteration of loop_voice: VoiceIO.record, whose exceptions (other
\* than KeyboardInterrupt) are not caught; an empty text is skipped, any
\* other goes to handle_turn
LoopVoice ==
    /\ pc = "idle"
    /\ cycle.kind \notin {"crashed", "intro"}
    /\ \E capture \in CaptureOutcomes :
          LET Iteration(endpoint, primary, fallback) ==
                  LET r == VoiceRecord(capture, endpoint, primary, fallback)
                      c == [NoCycle EXCEPT
                              !.source = "voice",
                              !.capture = capture,
                              !.endpoint = IF r.calls = <<>> THEN "none"
                                           ELSE endpoint,
                              !.primary =
                                  AnswerKind(r.calls, "primary", primary),
                              !.fallback =
                                  AnswerKind(r.calls, "fallback", fallback)]
                  IN  IF r.raised THEN LeaveLoop([c EXCEPT !.kind = "crashed"])
                      ELSE IF r.text = <<>>
                           THEN NoInput([c EXCEPT !.kind = "no_input"])
                           ELSE HT_Begin(r.text)
                                /\ cycle' = [c EXCEPT !.kind = "turn"]
          IN  IF capture # "audio" THEN Iteration("audio", None, None)
              ELSE \E endpoint \in Endpoints, primary \in AsrAnswers :
                      IF endpoint = "audio" \/ primary # ApiError
                      THEN Iteration(endpoint, primary, None)
                      ELSE \E fallback \in AsrAnswers :
                              Iteration(endpoint, primary, fallback)

----------------------------------------------------------------------------
(* voice_bot_test.py: VoiceDoctorBot.  bot is the object, data_dir the     *)
(* files it keeps under data/.  An answer of the reasoning service is      *)
(* ApiError or a record [object, text, data]: whether the text is a JSON   *)
(* object, the text, and the values of the object's keys.                  *)

\* last_session.json as _update_profile writes it
DoctorSnapshot(session, profile, notes) ==
    [exists |-> TRUE,
     session |-> JDump(session),
     profile |-> [name |-> JDump(profile.name),
                  address |-> JDump(profile.address)],
     notes |-> JDumpList(notes)]

NoDoctorSnapshot ==
    [DoctorSnapshot(None, [name |-> None, address |-> None], <<>>)
        EXCEPT !.exists = FALSE]

\* no VoiceDoctorBot object.  previous_snapshot, the prompts and the name
\* list feed only the request to the reasoning service, whose answer the
\* model draws freely, and are left out
NoBot ==
    [alive |-> FALSE,
     session_name |-> None,
     profile |-> [name |-> None, address |-> None],
     notes |-> <<>>,
     history |-> <<>>,
     known_clients |-> {},
     is_speaking |-> FALSE]

\* an empty data directory
EmptyDataDir ==
    [session_log |-> <<>>,
     profile_file |-> NoDoctorSnapshot,
     clients_file |-> NoClientsFile,
     session_meta_file |-> NoMeta]

\* BotConfig as the capture code reads it, with the sample counts it
\* derives: chunk_frames = max(1, int(sample_rate * push_chunk_seconds)),
\* max_frames = int(sample_rate * record_seconds) and
\* min_frames = int(sample_rate * 0.5).  The timeouts are in chunk periods.
DefaultConfig ==
    [chunk_frames |-> 2, max_frames |-> 6, min_frames |-> 4,
     push_energy_threshold |-> 80, push_silence_timeout |-> 2,
     silence_trim_threshold |-> 40,
     realtime_energy_threshold |-> 200, realtime_silence_timeout |-> 1,
     use_vad_for_filtering |-> FALSE]

\* no capture is running
InitNoCapture ==
    /\ config = DefaultConfig
    /\ mic = <<>>
    /\ heard = <<>>
    /\ audio_queue = <<>>
    /\ buffer = <<>>
    /\ total_frames = 0
    /\ silence_since = 0
    /\ now = 1
    /\ cpc = "off"
    /\ audio = <<>>
    /\ segment = <<>>
    /\ lagged = FALSE
    /\ failed = "none"
    /\ taken_at = <<>>
    /\ pending = <<>>
    /\ echo = {}

\* no VoiceDoctorBot was ever run
InitNoDoctor ==
    /\ bot = NoBot
    /\ data_dir = EmptyDataDir

\* no execution of a turn was put aside
NoFirstRun ==
    [done |-> FALSE, session |-> None, start |-> NewState, text |-> None,
     kind |-> "none",
     json |-> EmptyJson, state |-> NewState, snapshot |-> NoSnapshot,
     outcome |-> "none", result |-> NoResult]

\* the routing lines were not applied; nulls holds the keys of the
\* interpretation whose value is null instead of an object
NoRouted ==
    [done |-> FALSE, nulls |-> {}, before |-> EmptyJson, raised |-> FALSE,
     domain |-> TokNone, payload |-> NoPayload, json |-> EmptyJson]

\* a last_session.json of any content.  kind says what the file is: not
\* there, not readable, not JSON, JSON that is no object, or an object.
\* For an object, each key the seeding reads has a shape (the JSON type of
\* its value, "absent" without the key) and a value that counts when the
\* shape is the one the seeding copies; extra counts the other keys.
NoPrior ==
    [kind |-> "missing",
     profile_shape |-> "absent",
     name |-> JMissing, address |-> JMissing, profile_extra |-> 0,
     notes_shape |-> "absent", notes |-> <<>>,
     visitor_shape |-> "absent", visitor |-> DumpVisitor(NewState.visitor_state),
     reservation_shape |-> "absent",
     reservation |-> DumpReservation(NewState.reservation_state),
     sales_shape |-> "absent", sales |-> DumpSales(NewState.sales_state),
     extra |-> 0]

NoSeeding ==
    [done |-> FALSE, raised |-> FALSE, prior |-> NoPrior, state |-> NewState]

InitNoGhost ==
    /\ first_run = NoFirstRun
    /\ routed = NoRouted
    /\ seeding = NoSeeding

----------------------------------------------------------------------------
(* core/orchestrator.py: the specification of MultiDomainBot *)

\* the configurations: BotConfig.history_limit
HistoryLimits == 0..MaxLimit

\* before MultiDomainBot is constructed
InitMana ==
    /\ names = {}
    /\ loaded = FALSE
    /\ last_add = None
    /\ add_branch = "none"
    /\ n_adds = 0
    /\ clients_file = NoClientsFile
    /\ state = NewState
    /\ history_limit \in HistoryLimits
    /\ session_name = None
    /\ log_file = <<>>
    /\ snapshot_file = NoSnapshot
    /\ meta_file = NoMeta
    /\ clock = 1
    /\ pc = "down"
    /\ user_text = None
    /\ brain_kind = "none"
    /\ brain_json = EmptyJson
    /\ outcome = "none"
    /\ result = NoResult
    /\ turn_start = NewState
    /\ boundary = NoSnapshot
    /\ n_turns = 0
    /\ n_sessions = 0
    /\ cycle = NoCycle

Init ==
    /\ InitMana
    /\ InitNoDoctor
    /\ InitNoCapture
    /\ InitNoGhost

\* a caller calls handle_turn
Turn == \E text \in UserTexts : HT_Begin(text) /\ cycle' = CallCycle

Next ==
    \/ Construct
    \/ Tick
    \/ Exit
    \/ Turn
    \/ HT_Infer
    \/ HT_InferRaises
    \/ HT_Unpack
    \/ StartVisitorIntro
    \/ LoopTextOnly
    \/ LoopVoice

Spec == Init /\ [][Next]_vars

----------------------------------------------------------------------------
(* persistence/clients_store.py *)

\* the names the callers pass to add: with and without surrounding
\* whitespace, empty, and in an order that is not the sorted one
RawNames ==
    { <<>>, <<32>>, <<66>>, <<65>>, <<32, 65>>, <<65, 32>>, <<65, 66>>,
      <<66, 9>>, <<67>> }

\* the names load() reads from the file: str(x).strip() of every item, the
\* empty ones dropped
FileNames(f) ==
    IF f.exists
    THEN {Strip(JLoad(f.data[i])) : i \in 1..Len(f.data)} \ {<<>>}
    ELSE {}

\* ClientsStore.load: the state of _names after it
LoadedNames == IF loaded THEN names ELSE FileNames(clients_file)

\* ClientsStore._persist: the file is overwritten with the sorted names
Persist(S) == [exists |-> TRUE, data |-> JDumpList(Sorted(S))]

\* a new process constructs a new ClientsStore over the same file
CS_New ==
    /\ names' = {}
    /\ loaded' = FALSE
    /\ last_add' = None
    /\ add_branch' = "none"
    /\ UNCHANGED <<clients_file, n_adds, botVars>>
    /\ UNCHANGED <<cycle, extVars>>

\* ClientsStore.load and ClientsStore.all
CS_Load ==
    /\ names' = LoadedNames
    /\ loaded' = TRUE
    /\ last_add' = None
    /\ add_branch' = "none"
    /\ UNCHANGED <<clients_file, n_adds, botVars>>
    /\ UNCHANGED <<cycle, extVars>>

\* a mutant of add: the new name is kept in memory and not written
CS_AddWriteBehind(name) ==
    LET clean == Strip(name)
    IN  /\ loaded' = TRUE
        /\ last_add' = name
        /\ n_adds' = n_adds + 1
        /\ add_branch' = IF clean = <<>> \/ clean \in LoadedNames
                          THEN "skipped" ELSE "added"
        /\ names' = IF clean = <<>> THEN LoadedNames
                    ELSE LoadedNames \cup {clean}
        /\ UNCHANGED <<clients_file, botVars>>
        /\ UNCHANGED <<cycle, extVars>>

\* a mutant of add: the set is replaced by the new name
CS_AddReplace(name) ==
    LET clean == Strip(name)
    IN  /\ loaded' = TRUE
        /\ last_add' = name
        /\ n_adds' = n_adds + 1
        /\ UNCHANGED botVars
        /\ IF clean = <<>> \/ clean \in LoadedNames
           THEN /\ names' = LoadedNames
                /\ add_branch' = "skipped"
                /\ UNCHANGED clients_file
           ELSE /\ add_branch' = "added"
                /\ names' = {clean}
                /\ clients_file' = Persist({clean})
        /\ UNCHANGED <<cycle, extVars>>

\* ClientsStore.add
CS_Add(name) ==
    LET clean == Strip(name)
    IN  /\ loaded' = TRUE
        /\ last_add' = name
        /\ n_adds' = n_adds + 1
        /\ UNCHANGED botVars
        /\ IF clean = <<>> \/ clean \in LoadedNames
           THEN /\ names' = LoadedNames
                /\ add_branch' = "skipped"
                /\ UNCHANGED clients_file
           ELSE /\ add_branch' = "added"
                /\ names' = LoadedNames \cup {clean}
                /\ clients_file' = Persist(LoadedNames \cup {clean})
        /\ UNCHANGED <<cycle, extVars>>

\* the store alone: a caller makes the calls, the bot is not running
InitClients ==
    /\ Init
    /\ history_limit = 0

AddCall ==
    /\ n_adds < MaxAdds
    /\ \E name \in RawNames : CS_Add(name)

NextClients ==
    \/ AddCall
    \/ CS_Load
    \/ CS_New

SpecClients == InitClients /\ [][NextClients]_vars

----------------------------------------------------------------------------
(* The skills and the snapshot on their own: a caller hands payloads to    *)
(* the skills' handle methods, saves a snapshot and seeds a new state from *)
(* it, as SessionStore and _seed_state_from_snapshot do at a restart.      *)

\* the payloads handed to the skills
SkillPayloads ==
    { EmptyPayload,
      [EmptyPayload EXCEPT !.name = <<32, 1593, 1604, 1610>>,
                           !.address = <<88, 32>>, !.reply = <<79, 75>>],
      [EmptyPayload EXCEPT !.appointment = <<84>>, !.notes = <<78>>],
      [EmptyPayload EXCEPT !.product = <<66>>, !.quantity = PyInt(2),
                           !.notes = <<78>>, !.intent = "order"],
      [EmptyPayload EXCEPT !.visitor_name = <<86>>, !.business_type = <<87>>,
                           !.question = <<81>>, !.intent = "needs"],
      [EmptyPayload EXCEPT !.intent = "why_buy", !.kb_answer = <<75>>,
                           !.product_name = PyInt(3)] }

\* how many calls of skills one behaviour makes
MaxCalls == 3

SkillCall(r) ==
    /\ pc = "idle"
    /\ n_turns < MaxCalls
    /\ n_turns' = n_turns + 1
    /\ state' = r.state
    /\ result' = r.result
    /\ outcome' = IF r.raised THEN "raised" ELSE "returned"
    /\ UNCHANGED <<clientVars, history_limit, storeVars, clock, pc, user_text,
                   brain_kind, brain_json, turn_start, boundary, n_sessions>>
    /\ UNCHANGED <<cycle, extVars>>

SK_Reservation == \E raw \in SkillPayloads : SkillCall(ReservationHandle(state, raw))

SK_Sales == \E raw \in SkillPayloads : SkillCall(SalesHandle(state, raw))

SK_SmallTalk == \E raw \in SkillPayloads : SkillCall(SmallTalkHandle(state, raw))

SK_Produce == \E raw \in SkillPayloads : SkillCall(ProduceHandle(state, raw))

SK_Visitor == \E raw \in SkillPayloads : SkillCall(VisitorHandle(state, raw))

\* save_snapshot(state), then load_last_snapshot and
\* _seed_state_from_snapshot on a new ConversationState
SaveAndReseed ==
    /\ pc = "idle"
    /\ outcome # "reseeded"
    /\ snapshot_file' = Snapshot(session_name, state)
    /\ turn_start' = state
    /\ state' = SeedStateFromSnapshot(NewState, snapshot_file')
    /\ outcome' = "reseeded"
    /\ result' = NoResult
    /\ UNCHANGED <<clientVars, history_limit, session_name, log_file,
                   meta_file, clock, pc, user_text, brain_kind, brain_json,
                   boundary, n_turns, n_sessions>>
    /\ UNCHANGED <<cycle, extVars>>

InitSkills ==
    /\ Init
    /\ history_limit = 0

NextSkills ==
    \/ Construct
    \/ SK_Reservation
    \/ SK_Sales
    \/ SK_SmallTalk
    \/ SK_Produce
    \/ SK_Visitor
    \/ SaveAndReseed

SpecSkills == InitSkills /\ [][NextSkills]_vars

----------------------------------------------------------------------------
(* voice_bot_test.py: VoiceDoctorBot's methods.  w is the pair of the bot  *)
(* and its data directory.                                                 *)

\* _generate_session_name: the second and two random bytes
DoctorSessionName(t, suffix) == <<100, 45, t, 45, suffix>>

\* the values of os.urandom(2) the model draws from
Suffixes == {0, 1}

\* _load_history_from_log: the user and assistant entries of the whole log,
\* of every session, the last history_limit of them
HistoryFromLog(log, limit) ==
    LET IsTurnLine(l) == l.role \in {"user", "assistant"}
        lines   == SelectSeq(log, IsTurnLine)
        entries == [i \in 1..Len(lines) |->
                      [role |-> lines[i].role, text |-> Strip(lines[i].text)]]
    IN  IF entries = <<>> THEN <<>> ELSE LastRecords(entries, limit)

\* _load_known_clients: the names of clients.json; without that file, the
\* names of the assistant lines of the log that are JSON objects, which no
\* reply of this model is
KnownClientsFrom(d) ==
    IF d.clients_file.exists THEN FileNames(d.clients_file) ELSE {}

\* VoiceDoctorBot.__init__ over the data directory d: the profile and the
\* notes start empty, _load_last_session fills previous_snapshot only
NewBot(d, t, suffix, limit) ==
    [NoBot EXCEPT
       !.alive = TRUE,
       !.session_name = DoctorSessionName(t, suffix),
       !.known_clients = KnownClientsFrom(d),
       !.history = HistoryFromLog(d.session_log, limit)]

\* _save_session_meta and _log_session_start
StartedDataDir(d, name, t) ==
    [d EXCEPT
       !.session_meta_file = [exists |-> TRUE, session_name |-> name,
                              started_at |-> t],
       !.session_log = Append(@, LogLine(name, "session", <<t>>,
                                         TokNone, TokNone))]

\* _remember
Remember(b, role, text, limit) ==
    LET h == Append(b.history, [role |-> role, text |-> text])
    IN  [b EXCEPT !.history = IF Len(h) > limit THEN LastRecords(h, limit)
                               ELSE h]

\* _log: the line is appended to the log, then remembered
Log(w, role, text, limit) ==
    [bot |-> Remember(w.bot, role, text, limit),
     data_dir |-> [w.data_dir EXCEPT
                     !.session_log = Append(@, LogLine(w.bot.session_name,
                                                       role, text,
                                                       TokNone, TokNone))]]

\* k in txt
Contains(txt, k) ==
    \E i \in 0..(Len(txt) - Len(k)) :
        \A j \in 1..Len(k) : txt[i + j] = k[j]

TestKeywords ==
    { <<1578, 1587, 1578, 32, 1589, 1583, 1575>>,
      <<1578, 1587, 1578, 32, 1590, 1576, 1591>>,
      <<1570, 1586, 1605, 1575, 1740, 1588, 32, 1589, 1583, 1575>>,
      <<1570, 1586, 1605, 1575, 1740, 1588, 32, 1605, 1740, 1705, 1585, 1608,
        1601, 1608, 1606>>,
      <<1570, 1586, 1605, 1575, 1740, 1588, 32, 1605, 1740, 1705, 1585, 1608,
        1601, 1606>>,
      <<1705, 1575, 1604, 1740, 1576, 1585, 1607>>,
      <<1705, 1575, 1604, 1740, 1576, 1585, 1607, 8204, 1705, 1585, 1583,
        1606>>,
      <<1576, 1585, 1575, 1740, 32, 1578, 1587, 1578>>,
      <<1601, 1602, 1591, 32, 1578, 1587, 1578>>,
      <<1601, 1602, 1591, 32, 1576, 1585, 1575, 1740, 32, 1570, 1586, 1605,
        1575, 1740, 1588>> }

BookingKeywords ==
    { <<1606, 1608, 1576, 1578>>,
      <<1608, 1740, 1586, 1740, 1578>>,
      <<1608, 1610, 1586, 1610, 1578>>,
      <<1608, 1602, 1578>>,
      <<1605, 1588, 1575, 1608, 1585, 1607>>,
      <<1583, 1705, 1578, 1585>>,
      <<1583, 1603, 1578, 1585>>,
      <<1662, 1586, 1588, 1705>>,
      <<1705, 1604, 1740, 1606, 1740, 1705>>,
      <<1603, 1604, 1610, 1606, 1610, 1603>> }

\* str.lower of a code point: the ASCII capitals
Lower(c) == IF c >= 65 /\ c <= 90 THEN c + 32 ELSE c

NeverPureTest(transcript) == FALSE

\* _is_pure_test_utterance: the microphone sign (U+1F3A4) is removed, the
\* text stripped and lowered; a booking word rules the test out
IsPureTestUtterance(transcript) ==
    LET NoSign(c) == c # 127908
        s == Strip(SelectSeq(transcript, NoSign))
    IN  \E txt \in {[i \in 1..Len(s) |-> Lower(s[i])]} :
            /\ \A k \in BookingKeywords : ~Contains(txt, k)
            /\ \E k \in TestKeywords : Contains(txt, k)

\* the fixed replies of _reason, abbreviated
ReplyPureTest == <<1605, 21>>

ReplyReasonFailed == <<1605, 22>>

ReplyTestClamp == <<1605, 23>>

ReplyNoiseClamp == <<1605, 24>>

\* a payload of VoiceDoctorBot: intent is a token, the others a str or None
NonePayload ==
    [intent |-> TokNone, reply |-> None, name |-> None, address |-> None,
     appointment |-> None, notes |-> None]

\* An answer of the reasoning service is an error, or the text, with the
\* values of the keys when the text is a JSON object.  NoData: the text is
\* no JSON object, or an object without the six keys
NoData ==
    [intent |-> TokAbsent, reply |-> Absent, name |-> Absent,
     address |-> Absent, appointment |-> Absent, notes |-> Absent]

\* _clean of _normalize_payload
Clean(x) ==
    IF x \in {None, Absent} THEN None
    ELSE IF Strip(PyStr(x)) = <<>> THEN None ELSE Strip(PyStr(x))

\* _normalize_payload of the text of an answer
NormalizePayload(answer) ==
    LET data == IF answer.object THEN answer.data ELSE NoData
    IN  [intent |-> TokOr(data.intent, "booking"),
         reply |-> Clean(data.reply),
         name |-> Clean(data.name),
         address |-> Clean(data.address),
         appointment |-> Clean(data.appointment),
         notes |-> Clean(data.notes)]

\* x or y
Or(x, y) == IF Truthy(x) THEN x ELSE y

\* _reason: [reply, payload, called]; called tells whether the reasoning
\* service was asked
Reason(b, transcript, answer) ==
    IF IsPureTestUtterance(transcript)
    THEN [reply |-> ReplyPureTest,
          payload |-> [NonePayload EXCEPT !.intent = "test",
                                          !.reply = ReplyPureTest,
                                          !.name = b.profile.name,
                                          !.address = b.profile.address],
          called |-> FALSE]
    ELSE IF answer.error
    THEN [reply |-> ReplyReasonFailed,
          payload |-> [NonePayload EXCEPT !.intent = "other",
                                          !.reply = ReplyReasonFailed,
                                          !.name = b.profile.name,
                                          !.address = b.profile.address],
          called |-> TRUE]
    ELSE LET p == NormalizePayload(answer)
             q == IF p.intent \in {"test", "noise"}
                  THEN [p EXCEPT !.reply = IF p.intent = "test"
                                           THEN ReplyTestClamp
                                           ELSE ReplyNoiseClamp,
                                 !.appointment = None,
                                 !.notes = None]
                  ELSE p
         IN  [reply |-> Or(q.reply, Strip(answer.text)),
              payload |-> q,
              called |-> TRUE]

\* _persist_known_clients
PersistKnownClients(d, S) == [d EXCEPT !.clients_file = Persist(S)]

\* _add_known_client
AddKnownClient(w, name) ==
    LET clean == Strip(name)
    IN  IF clean = <<>> \/ clean \in w.bot.known_clients THEN w
        ELSE [bot |-> [w.bot EXCEPT !.known_clients = @ \cup {clean}],
              data_dir |-> PersistKnownClients(
                               w.data_dir, w.bot.known_clients \cup {clean})]

\* _update_profile
UpdateProfile(w, payload) ==
    LET has_name == NonBlankStr(payload.name)
        name     == NormalizePersianName(payload.name)
        has_addr == NonBlankStr(payload.address)
        addr     == Strip(payload.address)
        note     == Or(payload.notes, payload.appointment)
        w1 == IF has_name
              THEN AddKnownClient(
                       [w EXCEPT !.bot.profile.name = name], name)
              ELSE w
        w2 == IF has_addr THEN [w1 EXCEPT !.bot.profile.address = addr]
              ELSE w1
        w3 == IF Truthy(note)
              THEN [w2 EXCEPT !.bot.notes = Append(@, PyStr(note))]
              ELSE w2
        updated == \/ has_name /\ w.bot.profile.name # name
                   \/ has_addr /\ w.bot.profile.address # addr
                   \/ Truthy(note)
        snapshot == DoctorSnapshot(w3.bot.session_name, w3.bot.profile,
                                   w3.bot.notes)
    IN  IF updated
        THEN [w3 EXCEPT !.data_dir.profile_file = snapshot]
        ELSE w3

\* the call raised OpenAIError
ReasonFailed ==
    [error |-> TRUE, object |-> FALSE, text |-> <<>>, data |-> NoData]

ReasonAnswers ==
    { ReasonFailed,
      \* no text at all
      [error |-> FALSE, object |-> FALSE, text |-> <<>>, data |-> NoData],
      \* text that is no JSON object
      [error |-> FALSE, object |-> FALSE, text |-> <<110, 111>>,
       data |-> NoData],
      \* {"intent": "booking", "reply": "OK", "name": " علي", "appointment": "1"}
      [error |-> FALSE, object |-> TRUE, text |-> <<123, 49, 125>>,
       data |-> [NoData EXCEPT !.intent = "booking", !.reply = <<79, 75>>,
                               !.name = <<32, 1593, 1604, 1610>>,
                               !.appointment = <<49>>]],
      \* {"intent": "noise", "reply": "OK", "notes": "N"}
      [error |-> FALSE, object |-> TRUE, text |-> <<123, 50, 125>>,
       data |-> [NoData EXCEPT !.intent = "noise", !.reply = <<79, 75>>,
                               !.notes = <<78>>]] }

\* what the transcription service answers VoiceDoctorBot with: also a
\* request to test the sound
TestRequest == <<1578, 1587, 1578, 32, 1589, 1583, 1575>>

DoctorTranscripts == AsrAnswers \cup { TestRequest }

\* what the services do during one call of _process_segment or one
\* iteration of run(): the transcription endpoint and answers, the answer
\* of the reasoning service, and whether synthesis and playback work.  A
\* service that is not called has one answer only: no fallback answer
\* without a second transcription call, no reasoning answer without a
\* transcript to reason about, no failure to speak without a transcript.
ServiceInputs ==
    { svc \in [endpoint : Endpoints, primary : DoctorTranscripts,
               fallback : DoctorTranscripts, answer : ReasonAnswers,
               speak : {"ok", "raises"}] :
        LET t     == Transcribe(svc.endpoint, svc.primary, svc.fallback)
            text  == ~t.raised /\ t.text # <<>>
            asked == text /\ ~IsPureTestUtterance(t.text)
        IN  /\ Len(t.calls) < 2 => svc.fallback = None
            /\ ~asked => svc.answer = ReasonFailed
            /\ ~text => svc.speak = "ok" }

\* no service is called
NoService ==
    [endpoint |-> "audio", primary |-> None, fallback |-> None,
     answer |-> ReasonFailed, speak |-> "ok"]

\* from the end of _speak on: an exception of _speak goes on, else the
\* assistant line is logged and _update_profile called; r is what _reason
\* returned
AfterSpeak(w1, r, svc, limit) ==
    IF svc.speak = "raises"
    THEN [bot |-> w1.bot, data_dir |-> w1.data_dir, kind |-> "crashed"]
    ELSE LET w2 == UpdateProfile(Log(w1, "assistant", r.reply, limit),
                                 r.payload)
         IN  [bot |-> w2.bot, data_dir |-> w2.data_dir, kind |-> "turn"]

\* the part run() and _process_segment share, from the transcript on: the
\* user line, _reason, _speak, the assistant line, _update_profile.  An
\* exception of _speak is not caught: its finally clause resets
\* is_speaking and the exception goes on.
AnswerTranscript(w, transcript, svc, limit) ==
    LET w1 == Log(w, "user", transcript, limit)
        r  == Reason(w1.bot, transcript, svc.answer)
    IN  IF r.reply = <<>>
        THEN [bot |-> w1.bot, data_dir |-> w1.data_dir, kind |-> "no_reply"]
        ELSE AfterSpeak(w1, r, svc, limit)

\* _process_segment(audio_np): an empty array and an empty transcript end
\* the call; an exception of _transcribe is not caught.  The trimmed and
\* filtered audio is never empty when audio_np is not, and goes only to the
\* transcription service.
ProcessSegment(w, audio_np, svc, limit) ==
    IF audio_np = <<>>
    THEN [bot |-> w.bot, data_dir |-> w.data_dir, kind |-> "no_input"]
    ELSE LET t == Transcribe(svc.endpoint, svc.primary, svc.fallback)
         IN  IF t.raised
             THEN [bot |-> w.bot, data_dir |-> w.data_dir, kind |-> "crashed"]
             ELSE IF t.text = <<>>
             THEN [bot |-> w.bot, data_dir |-> w.data_dir, kind |-> "no_input"]
             ELSE AnswerTranscript(w, t.text, svc, limit)

\* one iteration of run() after Enter: an exception of _record_audio or
\* _transcribe is caught and the loop continues
RunIteration(w, capture, svc, limit) ==
    IF capture # "audio"
    THEN [bot |-> w.bot, data_dir |-> w.data_dir, kind |-> "no_input"]
    ELSE LET t == Transcribe(svc.endpoint, svc.primary, svc.fallback)
         IN  IF t.raised \/ t.text = <<>>
             THEN [bot |-> w.bot, data_dir |-> w.data_dir, kind |-> "no_input"]
             ELSE AnswerTranscript(w, t.text, svc, limit)

----------------------------------------------------------------------------
(* voice_bot_test.py: the actions of VoiceDoctorBot *)

\* the session header lines of the doctor's log
DoctorHeaders ==
    {i \in 1..Len(data_dir.session_log) :
        data_dir.session_log[i].role = "session"}

\* the user lines of the doctor's log
DoctorUserLines ==
    LET IsUser(l) == l.role = "user"
    IN  SelectSeq(data_dir.session_log, IsUser)

\* the record of an iteration of run() or a call of _process_segment
DoctorCycle(source, capture, svc, kind) ==
    LET t     == Transcribe(svc.endpoint, svc.primary, svc.fallback)
        asked == capture = "audio"
    IN  [NoCycle EXCEPT
           !.source = source,
           !.kind = kind,
           !.capture = capture,
           !.endpoint = IF asked THEN svc.endpoint ELSE "none",
           !.primary = IF asked
                       THEN AnswerKind(t.calls, "primary", svc.primary)
                       ELSE "none",
           !.fallback = IF asked
                        THEN AnswerKind(t.calls, "fallback", svc.fallback)
                        ELSE "none",
           !.speak = IF kind \in {"turn", "crashed"} /\ asked /\ ~t.raised
                     THEN svc.speak ELSE "none",
           !.reason = IF asked /\ ~t.raised /\ t.text # <<>>
                      THEN IF Reason(NoBot, t.text, svc.answer).called
                           THEN "called" ELSE "skipped"
                      ELSE "none"]

\* VoiceDoctorBot.__init__
VD_Construct ==
    /\ ~bot.alive
    /\ Cardinality(DoctorHeaders) < MaxDoctorSessions
    /\ \E suffix \in Suffixes :
          /\ bot' = NewBot(data_dir, clock, suffix, history_limit)
          /\ data_dir' = StartedDataDir(data_dir, bot'.session_name, clock)
    /\ cycle' = NoCycle
    /\ UNCHANGED <<clientVars, botVars, captureVars, ghostVars>>

\* the process ends: "q", Ctrl+C, or an exception no one catches
VD_Exit ==
    /\ bot.alive
    /\ bot' = NoBot
    /\ cycle' = NoCycle
    /\ UNCHANGED <<clientVars, botVars, data_dir, captureVars, ghostVars>>

\* one iteration of run(): Enter, a recording, and the turn it leads to
RunOnce ==
    /\ bot.alive
    /\ cycle.kind # "crashed"
    /\ \E capture \in CaptureOutcomes :
        \E svc \in IF capture = "audio" THEN ServiceInputs ELSE {NoService} :
          \E r \in {RunIteration([bot |-> bot, data_dir |-> data_dir],
                                 capture, svc, history_limit)} :
              /\ bot' = r.bot
              /\ data_dir' = r.data_dir
              /\ cycle' = DoctorCycle("run", capture, svc, r.kind)
    /\ UNCHANGED <<clientVars, botVars, captureVars, ghostVars>>

\* the segments run_realtime hands to _process_segment, and the empty one
Segments == { <<>>, <<500, 0>> }

\* the iterations of run() the model follows
VD_Run == Len(DoctorUserLines) < MaxDoctorTurns /\ RunOnce

\* one call of _process_segment
SegmentOnce ==
    /\ bot.alive
    /\ cycle.kind # "crashed"
    /\ \E audio_np \in Segments :
        \E svc \in IF audio_np # <<>> THEN ServiceInputs ELSE {NoService} :
          \E r \in {ProcessSegment([bot |-> bot, data_dir |-> data_dir],
                                   audio_np, svc, history_limit)} :
              /\ bot' = r.bot
              /\ data_dir' = r.data_dir
              /\ cycle' = DoctorCycle("segment",
                                      IF audio_np = <<>> THEN "empty"
                                      ELSE "audio",
                                      svc, r.kind)
    /\ UNCHANGED <<clientVars, botVars, captureVars, ghostVars>>

\* the calls of _process_segment the model follows
VD_Segment == Len(DoctorUserLines) < MaxDoctorTurns /\ SegmentOnce

NextVoice ==
    \/ VD_Construct
    \/ VD_Exit
    \/ VD_Run
    \/ VD_Segment
    \/ Tick

SpecVoice == Init /\ [][NextVoice]_vars

----------------------------------------------------------------------------
(* The run loops of the two bots.  One of the two programs is run, any     *)
(* number of times; the clock stands still, the session names playing no   *)
(* part in what an iteration does.                                         *)

\* VoiceDoctorBot was never run
ManaAlone == data_dir = EmptyDataDir

\* MultiDomainBot was never run
DoctorAlone == n_sessions = 0

NextLoops ==
    \/ ManaAlone /\ Construct
    \/ ManaAlone /\ Exit
    \/ ManaAlone /\ LoopTextOnly
    \/ ManaAlone /\ LoopVoice
    \/ ManaAlone /\ HT_Infer
    \/ ManaAlone /\ HT_InferRaises
    \/ ManaAlone /\ HT_Unpack
    \/ DoctorAlone /\ VD_Construct
    \/ DoctorAlone /\ VD_Exit
    \/ DoctorAlone /\ VD_Run
    \/ DoctorAlone /\ VD_Segment

SpecLoops == Init /\ [][NextLoops]_vars

----------------------------------------------------------------------------
(* Audio capture: AudioCapture.record_push_to_talk with its trailing      *)
(* silence trim (VoiceDoctorBot._record_audio is the same algorithm) and  *)
(* VoiceDoctorBot.run_realtime.  A sample is an int16, a chunk a sequence *)
(* of samples, and time is counted in chunk periods: the device callback  *)
(* advances now by one for every chunk it delivers.                       *)

\* np.abs on int16: the lowest value has no positive counterpart and wraps
Abs16(x) == IF x = -32768 THEN -32768 ELSE IF x < 0 THEN -x ELSE x

RECURSIVE SumAbs(_)
SumAbs(chunk) ==
    IF chunk = <<>> THEN 0 ELSE Abs16(Head(chunk)) + SumAbs(Tail(chunk))

\* float(np.mean(np.abs(chunk))) >= threshold
Energetic(chunk, threshold) == SumAbs(chunk) >= threshold * Len(chunk)

\* np.concatenate(buffer)
RECURSIVE Concatenate(_)
Concatenate(chunks) ==
    IF chunks = <<>> THEN <<>> ELSE Head(chunks) \o Concatenate(Tail(chunks))

\* the while loop of the trim; idx is a Python index, from 0
RECURSIVE TrimIndex(_, _, _)
TrimIndex(samples, threshold, idx) ==
    IF idx >= 0 /\ Abs16(samples[idx + 1]) <= threshold
    THEN TrimIndex(samples, threshold, idx - 1)
    ELSE idx

\* a trim that returns audio[:idx]
TrimOffByOne(samples, threshold) ==
    IF samples = <<>> THEN samples
    ELSE LET idx == TrimIndex(samples, threshold, Len(samples) - 1)
         IN  IF idx <= 0 THEN samples ELSE SubSeq(samples, 1, idx)

TrimTrailingSilence(samples, threshold) ==
    IF samples = <<>> THEN samples
    ELSE LET idx == TrimIndex(samples, threshold, Len(samples) - 1)
         IN  IF idx <= 0 THEN samples ELSE SubSeq(samples, 1, idx + 1)

\* a silence clock that restarts at every quiet chunk
SilenceRestart(since, t) == t

\* a silence clock that no chunk restarts: it counts from the first tick
SilenceFromStart(since, t) == 1

\* silence_since or now; 0 stands for None, and the clock starts at 1
SilenceSince(since, t) == IF since = 0 THEN t ELSE since

\* the scenario: one-sample chunks, the minimum duration reached with the
\* fifth frame, the timeout reached two periods after the first quiet
\* frame of a run, which is at the third quiet frame in a row
ScenarioConfig ==
    [chunk_frames |-> 1, max_frames |-> 10, min_frames |-> 5,
     push_energy_threshold |-> 100, push_silence_timeout |-> 2,
     silence_trim_threshold |-> 100,
     realtime_energy_threshold |-> 100, realtime_silence_timeout |-> 2,
     use_vad_for_filtering |-> FALSE]

ScenarioStream ==
    << <<10>>, <<10>>, <<10>>, <<500>>, <<500>>,
       <<10>>, <<10>>, <<10>>, <<10>>, <<10>> >>

Configs == { DefaultConfig, ScenarioConfig }

\* chunks of DefaultConfig.chunk_frames samples
Chunks == { <<0, 0>>, <<500, 0>>, <<500, 500>> }

MaxChunks == 3

Streams(cfg) ==
    IF cfg = ScenarioConfig THEN { ScenarioStream }
    ELSE UNION { [1..n -> Chunks] : n \in 0..MaxChunks }

\* a doctor bot is up and about to capture
InitCapture ==
    /\ InitMana
    /\ history_limit = 1
    /\ bot = NewBot(EmptyDataDir, 1, 0, 1)
    /\ data_dir = StartedDataDir(EmptyDataDir, DoctorSessionName(1, 0), 1)
    /\ config \in Configs
    /\ mic \in Streams(config)
    /\ heard = <<>>
    /\ audio_queue = <<>>
    /\ buffer = <<>>
    /\ total_frames = 0
    /\ silence_since = 0
    /\ now = 1
    /\ cpc = "off"
    /\ audio = <<>>
    /\ segment = <<>>
    /\ lagged = FALSE
    /\ failed = "none"
    /\ taken_at = <<>>
    /\ pending = <<>>
    /\ echo = {}
    /\ InitNoGhost

\* record_push_to_talk up to the opening of the input stream
PT_Start ==
    /\ cpc = "off"
    /\ cpc' = "push"
    /\ audio_queue' = <<>>
    /\ buffer' = <<>>
    /\ taken_at' = <<>>
    /\ total_frames' = 0
    /\ silence_since' = 0
    /\ UNCHANGED <<config, mic, heard, now, audio, segment, lagged, failed,
                   pending, echo>>
    /\ UNCHANGED <<clientVars, botVars, cycle, doctorVars, ghostVars>>

\* run_realtime up to the opening of the input stream
RT_Start ==
    /\ cpc = "off"
    /\ bot.alive
    /\ cpc' = "realtime"
    /\ audio_queue' = <<>>
    /\ buffer' = <<>>
    /\ taken_at' = <<>>
    /\ silence_since' = 0
    /\ UNCHANGED <<config, mic, heard, total_frames, now, audio, segment,
                   lagged, failed, pending, echo>>
    /\ UNCHANGED <<clientVars, botVars, cycle, doctorVars, ghostVars>>

\* where run_realtime is while its input stream is open
RealtimeStates ==
    { "realtime", "realtime_turn", "realtime_speaking" }

\* a callback that never discards
DiscardsNever == FALSE

\* the callback of run_realtime returns before the put when is_speaking
\* is set; the callback of record_push_to_talk has no such test
Discards == cpc \in RealtimeStates /\ bot.is_speaking

\* _callback: the device delivers the next chunk, whatever the loop is
\* doing
Callback ==
    /\ cpc \in { "push" } \cup RealtimeStates
    /\ mic # <<>>
    /\ heard' = Append(heard, Head(mic))
    /\ mic' = Tail(mic)
    /\ now' = now + 1
    /\ audio_queue' = IF Discards THEN audio_queue
                      ELSE Append(audio_queue, Head(mic))
    /\ echo' = IF cpc \in RealtimeStates /\ bot.is_speaking
               THEN echo \cup { Head(mic) } ELSE echo
    /\ UNCHANGED <<config, buffer, total_frames, silence_since, cpc, audio,
                   segment, lagged, failed, taken_at, pending>>
    /\ UNCHANGED <<clientVars, botVars, cycle, doctorVars, ghostVars>>

\* a check of the maximum that lets a buffer of exactly max_frames go on
ReachedMaxLate(total, max_frames) == total > max_frames

\* total_frames >= max_frames
ReachedMax(total, max_frames) == total >= max_frames

\* one round of the while loop of record_push_to_talk, and on a break the
\* rest of the function
PT_Chunk ==
    /\ cpc = "push"
    /\ audio_queue # <<>>
    /\ LET chunk == Head(audio_queue)
           quiet == ~Energetic(chunk, config.push_energy_threshold)
           since == IF quiet THEN SilenceSince(silence_since, now) ELSE 0
           total == total_frames + Len(chunk)
           stop  == \/ /\ quiet
                       /\ now - since >= config.push_silence_timeout
                       /\ total >= config.min_frames
                    \/ ReachedMax(total, config.max_frames)
       IN  /\ audio_queue' = Tail(audio_queue)
           /\ buffer' = Append(buffer, chunk)
           /\ taken_at' = Append(taken_at, now)
           /\ total_frames' = total
           /\ silence_since' = since
           /\ lagged' = (lagged \/ Len(audio_queue) > 1)
           /\ IF stop
              THEN /\ cpc' = "returned"
                   /\ audio' = IF buffer' = <<>> THEN <<>>
                               ELSE TrimTrailingSilence(Concatenate(buffer'),
                                        config.silence_trim_threshold)
              ELSE UNCHANGED <<cpc, audio>>
    /\ UNCHANGED <<config, mic, heard, now, segment, failed, pending, echo>>
    /\ UNCHANGED <<clientVars, botVars, cycle, doctorVars, ghostVars>>

\* what the fixed window records
Levels == { 0, 500 }

\* the input stream raises: the except handler records a fixed window of
\* max_frames samples with sd.rec, and nothing catches what sd.rec raises;
\* what the loop had collected is dropped
PT_StreamFails ==
    /\ cpc = "push"
    /\ \/ /\ \E level \in Levels :
                audio' = [i \in 1..config.max_frames |-> level]
          /\ cpc' = "returned"
          /\ failed' = "stream"
       \/ /\ cpc' = "push_raised"
          /\ failed' = "both"
          /\ UNCHANGED audio
    /\ audio_queue' = <<>>
    /\ buffer' = <<>>
    /\ taken_at' = <<>>
    /\ total_frames' = 0
    /\ silence_since' = 0
    /\ UNCHANGED <<config, mic, heard, now, segment, lagged, pending, echo>>
    /\ UNCHANGED <<clientVars, botVars, cycle, doctorVars, ghostVars>>

\* a timeout that the first quiet chunk after speech has reached
TimedOutAtOnce(elapsed, timeout) == TRUE

\* (now - silence_since) >= silence_timeout
TimedOut(elapsed, timeout) == elapsed >= timeout

\* a loop that takes chunks while _process_segment is running
LoopFreeAlways == cpc \in RealtimeStates

\* the loop of run_realtime is at audio_queue.get(): _process_segment is
\* called from the loop and the loop goes on when it has returned
LoopFree == cpc = "realtime"

\* one round of the while loop of run_realtime, up to the call of
\* _process_segment; taken_at keeps the times at which the chunks since
\* the last segment were taken
RT_Chunk ==
    /\ LoopFree
    /\ audio_queue # <<>>
    /\ audio_queue' = Tail(audio_queue)
    /\ LET chunk == Head(audio_queue)
           since == SilenceSince(silence_since, now)
       IN  IF Energetic(chunk, config.realtime_energy_threshold)
           THEN /\ buffer' = Append(buffer, chunk)
                /\ silence_since' = 0
                /\ taken_at' = Append(taken_at, now)
                /\ UNCHANGED <<cpc, segment>>
           ELSE IF buffer = <<>>
           THEN /\ taken_at' = Append(taken_at, now)
                /\ UNCHANGED <<buffer, silence_since, cpc, segment>>
           ELSE IF ~TimedOut(now - since, config.realtime_silence_timeout)
           THEN /\ silence_since' = since
                /\ taken_at' = Append(taken_at, now)
                /\ UNCHANGED <<buffer, cpc, segment>>
           ELSE /\ segment' = Concatenate(buffer)
                /\ buffer' = <<>>
                /\ silence_since' = 0
                /\ taken_at' = <<>>
                /\ cpc' = "realtime_turn"
    /\ UNCHANGED <<config, mic, heard, total_frames, now, audio, lagged,
                   failed, pending, echo>>
    /\ UNCHANGED <<clientVars, botVars, cycle, doctorVars, ghostVars>>

\* _process_segment up to the call of _speak: what it does when _speak
\* raises at once, which leaves the state as it is at the call
UntilSpeak(w, audio_np, svc, limit) ==
    ProcessSegment(w, audio_np, [svc EXCEPT !.speak = "raises"], limit)

\* _process_segment(segment) from its start to the call of _speak, where
\* is_speaking is set, or to its end when it does not get that far
RT_Answer ==
    /\ cpc = "realtime_turn"
    /\ \E svc \in ServiceInputs :
         \E r \in { UntilSpeak([bot |-> bot, data_dir |-> data_dir],
                               segment, svc, history_limit) } :
            LET t == Transcribe(svc.endpoint, svc.primary, svc.fallback)
            IN  IF r.kind = "crashed" /\ ~t.raised
                THEN /\ bot' = [r.bot EXCEPT !.is_speaking = TRUE]
                     /\ data_dir' = r.data_dir
                     /\ pending' = << [transcript |-> t.text, svc |-> svc] >>
                     /\ cpc' = "realtime_speaking"
                     /\ UNCHANGED cycle
                ELSE /\ bot' = r.bot
                     /\ data_dir' = r.data_dir
                     /\ cycle' = DoctorCycle("segment", "audio", svc, r.kind)
                     /\ cpc' = IF r.kind = "crashed" THEN "realtime_raised"
                               ELSE "realtime"
                     /\ UNCHANGED pending
    /\ UNCHANGED <<config, mic, heard, audio_queue, buffer, total_frames,
                   silence_since, now, audio, segment, lagged, failed,
                   taken_at, echo>>
    /\ UNCHANGED <<clientVars, botVars, ghostVars>>

\* a _speak that resets is_speaking after the playback, with no finally
SpeakEndsUnguarded(b, played) ==
    IF played = "raises" THEN b ELSE [b EXCEPT !.is_speaking = FALSE]

\* the finally of _speak: is_speaking is reset, whether synthesis and
\* playback returned or raised
SpeakEnds(b, played) == [b EXCEPT !.is_speaking = FALSE]

\* the rest of _process_segment: _speak ends and resets is_speaking, then
\* the assistant line is logged and the profile updated
RT_Spoken ==
    /\ cpc = "realtime_speaking"
    /\ LET p  == pending[1]
           w1 == [bot |-> SpeakEnds(bot, p.svc.speak),
                  data_dir |-> data_dir]
       IN  \E r \in { AfterSpeak(w1, Reason(w1.bot, p.transcript, p.svc.answer),
                                 p.svc, history_limit) } :
              /\ bot' = r.bot
              /\ data_dir' = r.data_dir
              /\ cycle' = DoctorCycle("segment", "audio", p.svc, r.kind)
              /\ cpc' = IF r.kind = "crashed" THEN "realtime_raised"
                        ELSE "realtime"
    /\ pending' = <<>>
    /\ UNCHANGED <<config, mic, heard, audio_queue, buffer, total_frames,
                   silence_since, now, audio, segment, lagged, failed,
                   taken_at, echo>>
    /\ UNCHANGED <<clientVars, botVars, ghostVars>>

NextCapture ==
    \/ PT_Start
    \/ RT_Start
    \/ Callback
    \/ PT_Chunk
    \/ PT_StreamFails
    \/ RT_Chunk
    \/ RT_Answer
    \/ RT_Spoken

SpecCapture == InitCapture /\ [][NextCapture]_vars

----------------------------------------------------------------------------
(* The voice loops with their turns in steps: loop_voice of MultiDomainBot *)
(* and run_realtime of VoiceDoctorBot, each on its own, the device         *)
(* callback going on whatever the loop does.  Every chunk of a stream has  *)
(* samples of its own, so that a chunk can be told from the others.        *)

MaxDelivered == 6

\* the chunk at place i of a stream: above or below the energy threshold
MarkedChunk(i, loud) == IF loud THEN <<500 + i, 500 + i>> ELSE <<i, i>>

MarkedStreams ==
    UNION { { [i \in 1..n |-> MarkedChunk(i, f[i])] : f \in [1..n -> BOOLEAN] } :
            n \in 0..MaxDelivered }

InitTurns ==
    /\ InitMana
    /\ history_limit = 1
    /\ InitNoDoctor
    /\ config = DefaultConfig
    /\ mic \in MarkedStreams
    /\ heard = <<>>
    /\ audio_queue = <<>>
    /\ buffer = <<>>
    /\ total_frames = 0
    /\ silence_since = 0
    /\ now = 1
    /\ cpc = "off"
    /\ audio = <<>>
    /\ segment = <<>>
    /\ lagged = FALSE
    /\ failed = "none"
    /\ taken_at = <<>>
    /\ pending = <<>>
    /\ echo = {}
    /\ InitNoGhost

\* MultiDomainBot runs and the microphone of the doctor's bot is not used
ManaTurns == ManaAlone /\ mic = <<>> /\ cpc = "off"

NextTurns ==
    \/ ManaTurns /\ Construct
    \/ ManaTurns /\ Exit
    \/ ManaTurns /\ LoopVoice
    \/ ManaTurns /\ HT_Infer
    \/ ManaTurns /\ HT_InferRaises
    \/ ManaTurns /\ HT_Unpack
    \/ DoctorAlone /\ VD_Construct
    \/ DoctorAlone /\ RT_Start
    \/ Callback
    \/ RT_Chunk
    \/ RT_Answer
    \/ RT_Spoken

SpecTurns == InitTurns /\ [][NextTurns]_vars

\* the trim alone, on every buffer of up to MaxSamples samples
Samples == { 0, 40, 41, 500, -500, -32768 }

MaxSamples == 4

TrimThresholds == { 40, 100 }

InitTrim ==
    /\ InitMana
    /\ history_limit = 0
    /\ InitNoDoctor
    /\ \E threshold \in TrimThresholds :
          config = [DefaultConfig EXCEPT !.silence_trim_threshold = threshold]
    /\ audio \in UNION { [1..n -> Samples] : n \in 0..MaxSamples }
    /\ mic = <<>>
    /\ heard = <<>>
    /\ audio_queue = <<>>
    /\ buffer = <<>>
    /\ total_frames = 0
    /\ silence_since = 0
    /\ now = 1
    /\ cpc = "off"
    /\ segment = <<>>
    /\ lagged = FALSE
    /\ failed = "none"
    /\ taken_at = <<>>
    /\ pending = <<>>
    /\ echo = {}
    /\ InitNoGhost

\* a call of _trim_trailing_silence on audio, the result put back in audio;
\* heard keeps the buffer of the first call, buffer the argument of the
\* last one
TrimCall ==
    /\ cpc \in { "off", "trimmed" }
    /\ cpc' = IF cpc = "off" THEN "trimmed" ELSE "trimmed_again"
    /\ heard' = IF cpc = "off" THEN <<audio>> ELSE heard
    /\ buffer' = <<audio>>
    /\ audio' = TrimTrailingSilence(audio, config.silence_trim_threshold)
    /\ UNCHANGED <<config, mic, audio_queue, total_frames, silence_since,
                   now, segment, lagged, failed, taken_at, pending, echo>>
    /\ UNCHANGED <<clientVars, botVars, cycle, doctorVars, ghostVars>>

NextTrim == TrimCall

SpecTrim == InitTrim /\ [][NextTrim]_vars

----------------------------------------------------------------------------
(* The claims about the snapshot round trip, under SpecSkills. *)

\* C3: a snapshot saved from a state and seeded into a new state gives
\* back the same profile and the same reservation, sales, produce and
\* visitor state.
C3_SnapshotRoundTrip ==
    outcome = "reseeded" =>
        /\ state.profile = turn_start.profile
        /\ state.reservation_state = turn_start.reservation_state
        /\ state.sales_state = turn_start.sales_state
        /\ state.produce_state = turn_start.produce_state
        /\ state.visitor_state = turn_start.visitor_state

\* a round trip of a state with a name, an appointment, a sale and a
\* visitor intent
C3_Witness ==
    /\ outcome = "reseeded"
    /\ state.profile.name # None
    /\ state.sales_state.last_quantity = PyInt(2)
    /\ state.visitor_state.last_intent # TokAbsent

----------------------------------------------------------------------------
(* The claims about MultiDomainBot, under Spec. *)

\* the latest call of handle_turn in this session has ended
TurnEnded == pc = "idle" /\ brain_kind \notin {"none", "stopped"}

\* profile, notes and the per-domain state: the state without its history
Memory(st) == [st EXCEPT !.history = <<>>]

RegisteredDomains == {"reservation", "sales", "smalltalk", "produce", "visitor"}

\* C1: after every append and clamp the history holds no more records than
\* the configured limit, whatever the limit.
C1_HistoryWithinLimit == Len(state.history) <= history_limit

\* C2: when a turn has ended, the snapshot file holds the projection of the
\* state as it is then.
C2_SnapshotAfterTurn ==
    TurnEnded => snapshot_file = Snapshot(session_name, state)

\* C4: the snapshot file always holds the projection of the state at a turn
\* boundary: the start of the session, or the end of a completed turn.
C4_SnapshotAtBoundary == snapshot_file = boundary

\* the state has moved on in the middle of a turn and the file has not
C4_Witness ==
    /\ pc = "infer"
    /\ snapshot_file.exists
    /\ Memory(state) # Memory(SeedStateFromSnapshot(NewState, snapshot_file))

\* C5: while the reasoning call is under way, and after it failed or the
\* process was stopped during it, the last line of the turn log is the
\* user line of that turn.
C5_UserLineLoggedFirst ==
    (pc = "infer" \/ brain_kind \in {"stopped", "other_error", "api_error"})
        => /\ log_file # <<>>
           /\ log_file[Len(log_file)] =
                  LogLine(session_name, "user", user_text, TokNone, TokNone)

\* the process was stopped during the reasoning call of its second turn
C5_Witness ==
    /\ pc = "down"
    /\ brain_kind = "stopped"
    /\ n_turns = 2

\* C6: a turn whose interpretation has domain "reservation" and a non-empty
\* name ends with a SkillResult of domain "reservation", the normalized
\* name in the profile and the name in the known-clients file.
C6_ReservationNameKept ==
    (/\ TurnEnded
     /\ brain_kind = "dict"
     /\ brain_json.domain = "reservation"
     /\ NonBlankStr(brain_json.reservation.name))
        => /\ outcome = "returned"
           /\ result.domain = "reservation"
           /\ state.profile.name =
                  NormalizePersianName(brain_json.reservation.name)
           /\ NormalizePersianName(brain_json.reservation.name)
                  \in FileNames(clients_file)

\* C9: a turn whose interpretation names no registered domain returns a
\* SkillResult of domain "smalltalk" and does not raise.
C9_UnknownDomainToSmallTalk ==
    (/\ TurnEnded
     /\ brain_kind = "dict"
     /\ TokOr(brain_json.domain, "smalltalk") \notin RegisteredDomains
           \/ brain_json.domain = TokAbsent)
        => /\ outcome = "returned"
           /\ result.domain = "smalltalk"

\* C10: a turn whose reasoning call raised an API error returns the fixed
\* fallback reply and leaves profile, notes and per-domain state as they
\* were.
C10_ApiErrorFallback ==
    (TurnEnded /\ brain_kind = "api_error")
        => /\ outcome = "returned"
           /\ result.reply = FallbackReply
           /\ Memory(state) = Memory(turn_start)

\* C11: a turn whose reasoning call answered with text that is no JSON
\* object ends as one whose call raised an API error is meant to: it
\* returns the fixed fallback reply, no exception leaves handle_turn, and
\* profile, notes and per-domain state are as they were.
C11_MalformedJsonFallback ==
    (TurnEnded /\ brain_kind = "not_json")
        => /\ outcome = "returned"
           /\ result.reply = FallbackReply
           /\ Memory(state) = Memory(turn_start)

\* C17: when the primary transcription call of a loop_voice iteration
\* fails, the fallback model is called; when that fails too, the iteration
\* counts as one without input and the loop goes on.
C17_TranscriptionFallback ==
    (cycle.source = "voice" /\ cycle.primary = "error")
        => /\ cycle.fallback # "none"
           /\ cycle.fallback = "error" => cycle.kind = "no_input"

\* the positions of the session header lines in the turn log
Headers == {i \in 1..Len(log_file) : log_file[i].role = "session"}

\* C19: every construction of the bot has appended a header line to the
\* turn log, and no two sessions the log records have the same name.
C19_NewSessionIdentity ==
    /\ Cardinality(Headers) = n_sessions
    /\ \A i, j \in Headers :
          i # j => log_file[i].session # log_file[j].session

\* a is a prefix of b
IsPrefix(a, b) == Len(a) <= Len(b) /\ SubSeq(b, 1, Len(a)) = a

\* the user lines of the turn log, and those of the running session
UserLines(log) ==
    LET IsUser(l) == l.role = "user" IN SelectSeq(log, IsUser)

SessionLines(log) ==
    IF Headers = {} THEN log
    ELSE SubSeq(log, CHOOSE i \in Headers : \A j \in Headers : j <= i,
                Len(log))

\* the user records of the history
UserRecords(h) ==
    LET IsUser(r) == r.role = "user" IN SelectSeq(h, IsUser)

\* the N-th user line of the log is the one of the N-th turn, the last one
\* that of the latest turn; the user records of the history are, in the
\* same order, the last user lines of the session; and an assistant line
\* comes right after the user line of its turn
TurnOrdered ==
    LET users == UserLines(log_file)
        mine  == UserLines(SessionLines(log_file))
        recs  == UserRecords(state.history)
    IN  /\ Len(users) = n_turns
        /\ (n_turns > 0 /\ user_text # None)
              => users[n_turns].text = user_text
        /\ Len(recs) <= Len(mine)
        /\ \A i \in 1..Len(recs) :
              recs[i].text = mine[Len(mine) - Len(recs) + i].text
        /\ \A i \in 1..Len(log_file) :
              log_file[i].role = "assistant"
                  => i > 1 /\ log_file[i - 1].role = "user"

\* C20: no step changes or removes a line of the turn log, it only adds
\* lines at the end; and the lines and the history records are in the
\* order of the turns, the user line of a turn before its assistant line.
C20_LogAppendOnlyTurnOrdered ==
    [][IsPrefix(log_file, log_file') /\ TurnOrdered']_vars

C20_Witness ==
    /\ n_sessions = 2
    /\ n_turns = 2
    /\ Len(UserLines(SessionLines(log_file))) = 1
    /\ Len(UserRecords(state.history)) = 1
    /\ pc = "idle"

----------------------------------------------------------------------------
(* The claims about the run loops, under SpecLoops and SpecVoice. *)

\* C13: an iteration of loop_text_only, loop_voice or run(), or a call of
\* _process_segment, that got an empty utterance or an empty text leaves
\* the histories, the turn logs and the snapshot files as they were, and
\* the loop ready for the next capture.
C13_NoInputLeavesNoTrace ==
    [][cycle'.kind = "no_input"
         => /\ state' = state
            /\ log_file' = log_file
            /\ snapshot_file' = snapshot_file
            /\ bot'.history = bot.history
            /\ data_dir' = data_dir
            /\ cycle'.source \in {"text", "voice"} => pc' = "idle"
            /\ cycle'.source \in {"run", "segment"} => bot'.alive]_vars

C13_Witness ==
    /\ cycle.kind = "no_input"
    /\ cycle.source = "voice"
    /\ cycle.primary = "ok"
    /\ Len(log_file) > 1
    /\ pc = "idle"

\* C16: when synthesis or playback of the reply fails, the turn is
\* completed all the same: the assistant line is logged and remembered and
\* the loop goes on.
C16_SpeakFailureKeepsTurn ==
    cycle.speak = "raises"
        => /\ cycle.kind = "turn"
           /\ data_dir.session_log[Len(data_dir.session_log)].role
                  = "assistant"
           /\ bot.history # <<>>
           /\ bot.history[Len(bot.history)].role = "assistant"

----------------------------------------------------------------------------
(* The claims about the known-clients store, under SpecClients. *)

\* a JSON array of strings in strictly increasing order: sorted, no duplicate
StrictlySorted(data) ==
    \A i \in 1..Len(data) : \A j \in 1..Len(data) :
        i < j => StrLess(JLoad(data[i]), JLoad(data[j]))

\* C7: over any sequence of add calls (and loads, and new stores over the
\* same file) neither the set of known names nor the set the file holds
\* loses a member, and an add of a name that is already known leaves the
\* set and the file as they were.
C7_KnownClientsMonotone ==
    [][ /\ LoadedNames \subseteq LoadedNames'
        /\ FileNames(clients_file) \subseteq FileNames(clients_file')
        /\ \A name \in RawNames :
              (CS_Add(name) /\ Strip(name) \in LoadedNames)
                  => /\ LoadedNames' = LoadedNames
                     /\ clients_file' = clients_file ]_vars

\* an add of a known name has returned, with two names or more in the set
C7_Witness ==
    /\ add_branch = "skipped"
    /\ Strip(last_add) \in names
    /\ Cardinality(names) >= 2

\* C8: when add has returned, the names read back from the file are exactly
\* the in-memory set, the array in the file is sorted and free of
\* duplicates, and the name just passed (when it is not blank) is in the
\* file.  A file that was never written reads back as the empty set.
C8_FileHoldsTheSet ==
    add_branch # "none" =>
        /\ FileNames(clients_file) = names
        /\ Len(clients_file.data) = Cardinality(names)
        /\ StrictlySorted(clients_file.data)
        /\ Strip(last_add) # <<>> =>
                JDump(Strip(last_add)) \in Range(clients_file.data)

\* an add has just written a name that sorts before two older ones
C8_Witness ==
    /\ add_branch = "added"
    /\ Len(clients_file.data) >= 3
    /\ clients_file.data[1] = JDump(Strip(last_add))

----------------------------------------------------------------------------
(* The claims about audio capture, under SpecTrim and SpecCapture. *)

\* C14: _trim_trailing_silence is idempotent: trimming the result of a trim
\* gives that result back, for every sample buffer and every threshold.
C14_TrimIdempotent ==
    cpc = "trimmed_again" => audio = buffer[1]

\* a buffer of several samples lost its quiet tail in the first trim and
\* went through the second
C14_Witness ==
    /\ cpc = "trimmed_again"
    /\ Len(audio) > 1
    /\ Len(audio) < Len(heard[1])

\* every chunk the device delivered so far is below the energy threshold
AllQuiet(threshold) ==
    \A i \in 1..Len(heard) : ~Energetic(heard[i], threshold)

\* C12: from a frame stream whose frames are all below the energy
\* threshold, push-to-talk capture returns no samples and the realtime
\* loop hands no segment on.
C12_SilenceGivesNoUtterance ==
    /\ (/\ cpc = "returned"
        /\ failed = "none"
        /\ AllQuiet(config.push_energy_threshold)) => audio = <<>>
    /\ (/\ cpc \in RealtimeStates \cup { "realtime_raised" }
        /\ AllQuiet(config.realtime_energy_threshold)) => segment = <<>>

\* the samples of the frames a..b of the scenario, counted from 0
Frames(a, b) == Concatenate(SubSeq(ScenarioStream, a + 1, b + 1))

\* the scenario ran to its return, each frame taken as it arrived
ScenarioReturned ==
    /\ config = ScenarioConfig
    /\ cpc = "returned"
    /\ failed = "none"
    /\ ~lagged

\* C15 as stated: in the scenario push-to-talk yields the frames 0..4
\* before the trim and the frames 0..3 after it.
C15_ScenarioCut ==
    ScenarioReturned =>
        /\ Concatenate(buffer) = Frames(0, 4)
        /\ audio = Frames(0, 3)

\* C15 amended: in the scenario, with each frame taken as it arrives,
\* push-to-talk cuts at the third quiet frame of the trailing run and
\* yields the frames 0..7 before the trim and the frames 0..4 after it.
C15_ScenarioCutAmended ==
    ScenarioReturned =>
        /\ Concatenate(buffer) = Frames(0, 7)
        /\ audio = Frames(0, 4)

\* the scenario returned after its eighth frame
C15_Witness ==
    /\ ScenarioReturned
    /\ heard = SubSeq(ScenarioStream, 1, 8)
    /\ Len(buffer) = 8

\* C18: when the input stream fails, record_push_to_talk returns a fixed
\* window of max_frames samples; when the fixed window fails too, it
\* returns no samples, and no exception leaves it.
C18_CaptureFailureIsNoInput ==
    /\ failed = "stream" => (cpc = "returned" /\ Len(audio) = config.max_frames)
    /\ failed = "both" => (cpc = "returned" /\ audio = <<>>)

----------------------------------------------------------------------------
(* The claims about the turns of the voice loops, under SpecTurns. *)

\* _process_segment is running
InSegmentTurn == cpc \in { "realtime_turn", "realtime_speaking" }

\* handle_turn is running
InHandleTurn == pc \in { "infer", "unpack" }

\* C21: one turn at a time: while a turn is in progress the loop takes no
\* chunk from the queue, builds no buffer and no segment, and starts no
\* other turn, whatever the callback delivers in the meantime.
C21_OneTurnAtATime ==
    [][/\ InSegmentTurn =>
            /\ IsPrefix(audio_queue, audio_queue')
            /\ buffer' = buffer
            /\ segment' = segment
       /\ InHandleTurn =>
            /\ user_text' = user_text
            /\ n_turns' = n_turns]_vars

\* the reply is being spoken, a chunk delivered earlier in the turn waits
\* in the queue and another one was delivered during the playback
C21_Witness ==
    /\ cpc = "realtime_speaking"
    /\ audio_queue # <<>>
    /\ echo # {}

\* C22: a chunk the callback was given while is_speaking was set is not in
\* the queue, not in the buffer and not in a segment handed on.
C22_NoEchoInUtterance ==
    \A c \in echo :
        /\ c \notin Range(audio_queue)
        /\ c \notin Range(buffer)
        /\ c[1] \notin Range(segment)

\* a chunk was discarded during a playback, and after the turn the loop
\* took a later chunk into its buffer
C22_Witness ==
    /\ cpc = "realtime"
    /\ echo # {}
    /\ segment # <<>>
    /\ buffer # <<>>

----------------------------------------------------------------------------
(* A turn run twice: handle_turn is called, the state is put back to what  *)
(* it was when the call began, and handle_turn is called again, in the     *)
(* same session and maybe at another time of day.                          *)

\* the ended call is put aside and the state put back
Rewind ==
    /\ TurnEnded
    /\ ~first_run.done
    /\ first_run' = [done |-> TRUE, session |-> session_name,
                     start |-> turn_start, text |-> user_text,
                     kind |-> brain_kind, json |-> brain_json,
                     state |-> state, snapshot |-> snapshot_file,
                     outcome |-> outcome, result |-> result]
    /\ state' = turn_start
    /\ brain_kind' = "none"
    /\ brain_json' = EmptyJson
    /\ outcome' = "none"
    /\ result' = NoResult
    /\ UNCHANGED <<clientVars, history_limit, storeVars, clock, pc, user_text,
                   turn_start, boundary, n_turns, n_sessions>>
    /\ UNCHANGED <<cycle, doctorVars, captureVars, routed, seeding>>

InitReplay ==
    /\ Init
    /\ history_limit = 1

NextReplay ==
    \/ Construct
    \/ Tick
    \/ Turn
    \/ HT_Infer
    \/ HT_InferRaises
    \/ HT_Unpack
    \/ StartVisitorIntro
    \/ Rewind

SpecReplay == InitReplay /\ [][NextReplay]_vars

\* the call that has just ended was given what the call put aside was
\* given: the session, the state, the text and the answer of the
\* reasoning service
SameTurnAgain ==
    /\ first_run.done
    /\ TurnEnded
    /\ session_name = first_run.session
    /\ turn_start = first_run.start
    /\ user_text = first_run.text
    /\ brain_kind = first_run.kind
    /\ brain_json = first_run.json

----------------------------------------------------------------------------
(* More claims about MultiDomainBot, under Spec. *)

\* C24: a turn whose reasoning call answered with a JSON object runs all
\* its steps, in order and to the end: the user record and the user line
\* are followed by the assistant record and the assistant line, the
\* snapshot is written and the result is returned.
C24_TurnRunsToTheEnd ==
    (TurnEnded /\ brain_kind = "dict") =>
        /\ outcome = "returned"
        /\ state.history # <<>>
        /\ state.history[Len(state.history)] =
               [role |-> "assistant", text |-> result.reply]
        /\ log_file[Len(log_file)] =
               LogLine(session_name, "assistant", result.reply,
                       result.domain, result.intent)
        /\ snapshot_file = Snapshot(session_name, state)

\* the last k records of h
MostRecent(h, k) == SubSeq(h, Len(h) - k + 1, Len(h))

\* C25: an append and clamp leaves the most recent records, as many as
\* the limit allows, in the order they were appended: when handle_turn
\* appends the user record to a history that holds the most recent
\* records so far, the history then holds the most recent of those and the
\* new one.
C25_ClampKeepsMostRecent ==
    [][n_turns' = n_turns + 1 =>
          LET all == Append(state.history,
                            [role |-> "user", text |-> user_text'])
              k   == IF Len(all) < history_limit THEN Len(all)
                     ELSE history_limit
          IN  state'.history = MostRecent(all, k)]_vars

----------------------------------------------------------------------------
(* handle_turn, lines 68-90, on their own: the routing lines applied to an *)
(* interpretation object j.  nulls holds the keys of j whose value is null *)
(* instead of an object.                                                   *)

\* str(brain_json.get("domain") or "smalltalk")
DomainOf(j) == TokOr(j.domain, "smalltalk")

\* lines 71-86: the payload is the sub-object of the domain itself, not a
\* copy, or a new empty dict when j has no such key or the domain is not
\* one of the five; setdefault then writes into it, and raises
\* AttributeError when it is None.  [raised, domain, payload, json], json
\* being j as it is afterwards.
Route(j, nulls) ==
    LET domain   == DomainOf(j)
        known    == domain \in RegisteredDomains
        held     == known /\ j[domain].present
        selected == IF held THEN j[domain] ELSE EmptyPayload
        filled   == [selected EXCEPT
                       !.intent = IF @ # TokAbsent THEN @
                                  ELSE IF j.intent = TokAbsent THEN TokNone
                                  ELSE j.intent,
                       !.reply = IF @ # Absent THEN @ ELSE Get(j.reply)]
    IN  IF known /\ domain \in nulls
        THEN [raised |-> TRUE, domain |-> domain, payload |-> NoPayload,
              json |-> j]
        ELSE [raised |-> FALSE, domain |-> domain, payload |-> filled,
              json |-> IF held THEN [j EXCEPT ![domain] = filled] ELSE j]

\* the values of "domain", "intent" and "reply" and the sub-objects tried
DomainTokens == RegisteredDomains \cup { "unknown_xyz", TokAbsent, TokNone }

SubObjects ==
    { NoPayload,
      EmptyPayload,
      [EmptyPayload EXCEPT !.intent = "booking"],
      [EmptyPayload EXCEPT !.reply = <<82>>, !.name = <<78>>],
      [EmptyPayload EXCEPT !.intent = "booking", !.reply = <<82>>] }

RoutingJsons ==
    { [EmptyJson EXCEPT !.domain = t[1], !.intent = t[2], !.reply = t[3],
                        ![t[4]] = t[5]] :
        t \in DomainTokens \X { TokAbsent, "chat" } \X { Absent, None, <<79, 75>> }
              \X RegisteredDomains \X SubObjects }

InitRouting ==
    /\ InitMana
    /\ history_limit = 0
    /\ InitNoDoctor
    /\ InitNoCapture
    /\ first_run = NoFirstRun
    /\ seeding = NoSeeding
    /\ \E j \in RoutingJsons :
         \E ns \in SUBSET { k \in RegisteredDomains :
                              k = DomainOf(j) /\ ~j[k].present } :
            routed = [NoRouted EXCEPT !.json = j, !.nulls = ns]

\* lines 68-86 are applied to the interpretation object
RouteCall ==
    /\ ~routed.done
    /\ LET r == Route(routed.json, routed.nulls)
       IN  routed' = [routed EXCEPT !.done = TRUE, !.before = routed.json,
                                    !.raised = r.raised, !.domain = r.domain,
                                    !.payload = r.payload, !.json = r.json]
    /\ UNCHANGED <<clientVars, botVars, cycle, doctorVars, captureVars,
                   first_run, seeding>>

NextRouting == RouteCall

SpecRouting == InitRouting /\ [][NextRouting]_vars

----------------------------------------------------------------------------
(* The claims about where push-to-talk capture stops, under SpecCapture.  *)
(* The trailing quiet run is read off the chunks of the buffer and the    *)
(* times at which the loop took them, not off silence_since.              *)

\* the last chunk of the buffer is below the energy threshold
LastQuiet(chunks, threshold) ==
    chunks # <<>> /\ ~Energetic(chunks[Len(chunks)], threshold)

\* the index of the first chunk of the quiet run the buffer ends with,
\* one past the end when the last chunk is not quiet
RECURSIVE RunStart(_, _)
RunStart(chunks, threshold) ==
    IF ~LastQuiet(chunks, threshold) THEN Len(chunks) + 1
    ELSE RunStart(SubSeq(chunks, 1, Len(chunks) - 1), threshold)

\* one of the two conditions holds at the last chunk of the buffer
StopDue(chunks, times, cfg) ==
    \/ Len(Concatenate(chunks)) >= cfg.max_frames
    \/ /\ LastQuiet(chunks, cfg.push_energy_threshold)
       /\ times[Len(chunks)]
              - times[RunStart(chunks, cfg.push_energy_threshold)]
            >= cfg.push_silence_timeout
       /\ Len(Concatenate(chunks)) >= cfg.min_frames

\* C28: record_push_to_talk stops at the first frame at which the total
\* has reached the maximum, or the quiet run the buffer ends with has
\* lasted the silence timeout with the minimum captured; a frame at or
\* above the energy threshold restarts the silence timer; the loop never
\* stops before one of the two conditions holds.
C28_StopsAtFirstDueFrame ==
    [][(cpc = "push" /\ Len(buffer') = Len(buffer) + 1) =>
          /\ (cpc' = "returned") <=> StopDue(buffer', taken_at', config)
          /\ (cpc' = "push") <=> ~StopDue(buffer', taken_at', config)
          /\ ~LastQuiet(buffer', config.push_energy_threshold)
                => silence_since' = 0
          /\ (LastQuiet(buffer', config.push_energy_threshold)
                /\ ~LastQuiet(buffer, config.push_energy_threshold))
                => silence_since' = now]_vars

\* capture stopped on the silence timeout, short of the maximum, after a
\* quiet run that followed a frame above the threshold
C28_Witness ==
    /\ cpc = "returned"
    /\ failed = "none"
    /\ Len(Concatenate(buffer)) < config.max_frames
    /\ StopDue(buffer, taken_at, config)
    /\ \E i \in 1..Len(buffer) :
          /\ Energetic(buffer[i], config.push_energy_threshold)
          /\ i < RunStart(buffer, config.push_energy_threshold)

----------------------------------------------------------------------------
(* record_push_to_talk with a producer that does not run dry: the device  *)
(* goes on calling _callback with blocks of chunk_frames samples for as   *)
(* long as the input stream is open, and the stream does not fail.        *)

\* how far the producer may run ahead of the loop
MaxQueue == 2

\* the blocks the device delivers: blocksize = chunk_frames
Blocks(cfg) == [1..cfg.chunk_frames -> Levels]

InitLive ==
    /\ InitCapture
    /\ mic = <<>>

\* _callback: audio_queue.put(indata.copy().flatten())
Deliver ==
    /\ cpc = "push"
    /\ Len(audio_queue) < MaxQueue
    /\ \E block \in Blocks(config) :
          /\ heard' = Append(heard, block)
          /\ audio_queue' = Append(audio_queue, block)
    /\ now' = now + 1
    /\ UNCHANGED <<config, mic, buffer, total_frames, silence_since, cpc,
                   audio, segment, lagged, failed, taken_at, pending, echo>>
    /\ UNCHANGED <<clientVars, botVars, cycle, doctorVars, ghostVars>>

NextLive ==
    \/ PT_Start
    \/ Deliver
    \/ PT_Chunk

\* the device keeps delivering and the loop keeps running
SpecLive ==
    InitLive /\ [][NextLive]_vars /\ WF_vars(Deliver) /\ WF_vars(PT_Chunk)

\* C29: as long as the producer keeps delivering, record_push_to_talk
\* returns in the end, and the buffer it has accumulated is longer than
\* max_frames by less than one chunk.
C29_ReturnsWithinOneChunk ==
    /\ (cpc = "push") ~> (cpc = "returned")
    /\ [](cpc = "returned" =>
            Len(Concatenate(buffer)) < config.max_frames + config.chunk_frames)

\* capture returned on the maximum, with no quiet chunk at the end
C29_Witness ==
    /\ cpc = "returned"
    /\ failed = "none"
    /\ mic = <<>>
    /\ Len(heard) >= Len(buffer)
    /\ Len(Concatenate(buffer)) >= config.max_frames
    /\ ~LastQuiet(buffer, config.push_energy_threshold)

----------------------------------------------------------------------------
(* The claim about what the trim returns, under SpecTrim. *)

\* the absolute amplitude of a sample
Magnitude(x) == IF x < 0 THEN -x ELSE x

\* the positions of the samples above the threshold
Loud(samples, threshold) ==
    { i \in 1..Len(samples) : Magnitude(samples[i]) > threshold }

\* the prefix that ends at the last sample above the threshold, the
\* buffer itself when no sample is above it
PrefixToLastLoud(samples, threshold) ==
    LET loud == Loud(samples, threshold)
    IN  IF loud = {} THEN samples
        ELSE SubSeq(samples, 1, CHOOSE i \in loud : \A j \in loud : j <= i)

\* C30: for a non-empty buffer _trim_trailing_silence returns the prefix
\* that ends at the last sample whose absolute amplitude is above the
\* trim threshold, and the buffer unmodified if no sample is above it; a
\* non-empty input never yields an empty output.
C30_TrimCutsAtLastLoud ==
    (cpc = "trimmed" /\ heard[1] # <<>>) =>
        /\ audio = PrefixToLastLoud(heard[1], config.silence_trim_threshold)
        /\ audio # <<>>

----------------------------------------------------------------------------
(* The claim about the segments of run_realtime, under SpecTurns, where   *)
(* every chunk of the stream can be told from the others.                 *)

\* the chunks the callback has put in the queue, in the order of the puts
Queued == SelectSeq(heard, LAMBDA chunk : chunk \notin echo)

\* the chunks the loop has taken from the queue since the last segment
TakenSince ==
    LET taken == Len(Queued) - Len(audio_queue)
    IN  SubSeq(Queued, taken - Len(taken_at) + 1, taken)

\* the chunks at or above the energy threshold, in their order
SpeechOf(chunks, threshold) ==
    SelectSeq(chunks, LAMBDA chunk : Energetic(chunk, threshold))

\* with the chunk the loop is taking now, the speech since the last
\* segment is not empty and the quiet run the chunks end with has lasted
\* the silence timeout
SegmentDue ==
    LET chunks == Append(TakenSince, Head(audio_queue))
        times  == Append(taken_at, now)
        thr    == config.realtime_energy_threshold
    IN  /\ LastQuiet(chunks, thr)
        /\ SpeechOf(TakenSince, thr) # <<>>
        /\ times[Len(times)] - times[RunStart(chunks, thr)]
             >= config.realtime_silence_timeout

\* C31: run_realtime emits a segment exactly when the working buffer is
\* not empty and a run of quiet chunks has lasted the silence timeout;
\* the segment is the speech chunks taken since the last segment, in
\* queue order, none lost and none twice; the buffer is empty afterwards;
\* and no segment is emitted at a speech chunk, however long the buffer.
C31_SegmentAtSilenceOnly ==
    [][(cpc = "realtime" /\ audio_queue # <<>>
          /\ audio_queue' = Tail(audio_queue)) =>
          LET thr    == config.realtime_energy_threshold
              speech == SpeechOf(TakenSince, thr)
          IN  /\ (cpc' = "realtime_turn") <=> SegmentDue
              /\ buffer = speech
              /\ SegmentDue => /\ segment' = Concatenate(speech)
                               /\ buffer' = <<>>
              /\ ~SegmentDue =>
                    /\ segment' = segment
                    /\ cpc' = "realtime"
                    /\ buffer' = SpeechOf(Append(TakenSince, Head(audio_queue)),
                                          thr)]_vars

\* a second segment is being answered: the first speech chunk went out
\* in an earlier segment and is not in this one
C31_Witness ==
    /\ cpc = "realtime_turn"
    /\ Energetic(heard[1], config.realtime_energy_threshold)
    /\ heard[1] \notin echo
    /\ \E j \in 2..MaxDelivered : segment = MarkedChunk(j, TRUE)

----------------------------------------------------------------------------
(* _process_segment with its trim and its speech filter.  The verdicts of *)
(* the voice activity detector are an input: one for each whole frame.    *)

\* int(sample_rate * frame_ms / 1000) samples, scaled down
FrameLen == 2

\* _keep_speech_only: the whole frames the detector calls speech, in
\* their order; a last frame that is not whole is left out
RECURSIVE KeepSpeechOnly(_, _)
KeepSpeechOnly(samples, verdicts) ==
    IF Len(samples) < FrameLen \/ verdicts = <<>> THEN <<>>
    ELSE (IF Head(verdicts) THEN SubSeq(samples, 1, FrameLen) ELSE <<>>)
         \o KeepSpeechOnly(SubSeq(samples, FrameLen + 1, Len(samples)),
                           Tail(verdicts))

\* the lines of _process_segment before _transcribe: what goes to
\* _transcribe, nothing when the call returns before it
Usable(audio_np, cfg, verdicts) ==
    IF audio_np = <<>> THEN <<>>
    ELSE LET trimmed == TrimTrailingSilence(audio_np,
                                            cfg.silence_trim_threshold)
             speech  == KeepSpeechOnly(trimmed, verdicts)
         IN  IF cfg.use_vad_for_filtering /\ speech # <<>>
             THEN speech ELSE trimmed

\* the segments run_realtime hands on: never empty
FilterSegments == UNION { [1..n -> Levels] : n \in 1..MaxSamples }

\* the verdicts of the detector on the frames of a segment
Verdicts(samples) == [1..(Len(samples) \div FrameLen) -> BOOLEAN]

InitFilter ==
    /\ InitMana
    /\ history_limit = 1
    /\ bot = NewBot(EmptyDataDir, 1, 0, 1)
    /\ data_dir = StartedDataDir(EmptyDataDir, DoctorSessionName(1, 0), 1)
    /\ \E filtering \in BOOLEAN :
          config = [DefaultConfig EXCEPT !.use_vad_for_filtering = filtering]
    /\ segment \in FilterSegments
    /\ mic = <<>>
    /\ heard = <<>>
    /\ audio_queue = <<>>
    /\ buffer = <<>>
    /\ total_frames = 0
    /\ silence_since = 0
    /\ now = 1
    /\ cpc = "off"
    /\ audio = <<>>
    /\ lagged = FALSE
    /\ failed = "none"
    /\ taken_at = <<>>
    /\ pending = <<>>
    /\ echo = {}
    /\ InitNoGhost

\* _process_segment(segment): audio keeps what went to _transcribe, heard
\* what _keep_speech_only made of the trimmed segment
PS_Call ==
    /\ cpc = "off"
    /\ cpc' = "processed"
    /\ LET trimmed == TrimTrailingSilence(segment,
                                          config.silence_trim_threshold)
       IN  \E verdicts \in Verdicts(trimmed) :
            \E svc \in ServiceInputs :
             \E r \in { ProcessSegment([bot |-> bot, data_dir |-> data_dir],
                                       Usable(segment, config, verdicts),
                                       svc, history_limit) } :
               /\ heard' = << KeepSpeechOnly(trimmed, verdicts) >>
               /\ audio' = Usable(segment, config, verdicts)
               /\ bot' = r.bot
               /\ data_dir' = r.data_dir
               /\ cycle' = DoctorCycle("segment", "audio", svc, r.kind)
    /\ UNCHANGED <<config, mic, audio_queue, buffer, total_frames,
                   silence_since, now, segment, lagged, failed, taken_at,
                   pending, echo>>
    /\ UNCHANGED <<clientVars, botVars, ghostVars>>

NextFilter == PS_Call

SpecFilter == InitFilter /\ [][NextFilter]_vars

\* C32: with the speech filter on, when _keep_speech_only leaves nothing
\* of the segment, the segment is taken as empty: nothing goes to the
\* transcriber and no turn is logged.
C32_FilteredOutIsEmpty ==
    (/\ cpc = "processed"
     /\ config.use_vad_for_filtering
     /\ heard[1] = <<>>) =>
        /\ audio = <<>>
        /\ cycle.kind = "no_input"
        /\ DoctorUserLines = <<>>

----------------------------------------------------------------------------
(* The start of MultiDomainBot on a last_session.json of any content:     *)
(* load_last_snapshot and _seed_state_from_snapshot.                      *)

\* the JSON types of a value, and "absent" for a key the object lacks
Shapes == { "absent", "null", "number", "string", "array", "object" }

JName == <<34, 78>>

JSeven == <<105, 7>>

\* the "profile" entry: a value that is no object, or an object with or
\* without "name" and "address" and with or without another key
ProfileParts ==
    { [shape |-> sh, name |-> JMissing, address |-> JMissing, extra |-> 0] :
        sh \in Shapes \ { "object" } }
    \cup [shape : { "object" }, name : { JMissing, JNull, JSeven, JName },
          address : { JMissing, <<34, 65>> }, extra : { 0, 1 }]

\* the "notes" entry: a value that is no array, or an array of strings,
\* numbers and nulls
NotesParts ==
    { [shape |-> sh, notes |-> <<>>] : sh \in { "absent", "string", "object" } }
    \cup [shape : { "array" },
          notes : { <<>>, <<JName>>, <<JSeven, JNull>>, <<JName, JSeven>> }]

\* a per-domain entry: a value that is no object, or an object
BlobParts(others, objects) ==
    { [shape |-> sh, value |-> CHOOSE o \in objects : TRUE] : sh \in others }
    \cup [shape : { "object" }, value : objects]

VisitorParts ==
    BlobParts({ "absent", "array", "null" },
              { DumpVisitor(NewState.visitor_state),
                DumpVisitor([NewState.visitor_state EXCEPT
                               !.last_intent = "needs",
                               !.visitor_name = <<86>>]) })

ReservationParts ==
    BlobParts({ "absent", "number" },
              { DumpReservation(NewState.reservation_state),
                DumpReservation([appointment |-> <<84>>]) })

SalesParts ==
    BlobParts({ "absent", "string" },
              { DumpSales(NewState.sales_state),
                DumpSales([last_product |-> <<66>>, last_quantity |-> PyInt(2),
                           notes |-> << <<78>> >>]) })

PriorObjects ==
    { [kind |-> "object",
       profile_shape |-> p.shape, name |-> p.name, address |-> p.address,
       profile_extra |-> p.extra,
       notes_shape |-> n.shape, notes |-> n.notes,
       visitor_shape |-> v.shape, visitor |-> v.value,
       reservation_shape |-> r.shape, reservation |-> r.value,
       sales_shape |-> sa.shape, sales |-> sa.value,
       extra |-> e] :
        p \in ProfileParts, n \in NotesParts, v \in VisitorParts,
        r \in ReservationParts, sa \in SalesParts, e \in { 0, 1 } }

PriorFiles ==
    { [NoPrior EXCEPT !.kind = k] :
        k \in { "missing", "unreadable", "invalid", "array", "number", "null" } }
    \cup PriorObjects

\* read_text or json.loads raises
ReadRaises(c) == c.kind \in { "unreadable", "invalid" }

\* a load_last_snapshot without its try
LoadUncaught(c) ==
    [raised |-> ReadRaises(c), dict |-> c.kind = "object"]

\* SessionStore.load_last_snapshot: whether it raises and whether it
\* returns a dict; what read_text and json.loads raise is caught
LoadLastSnapshot(c) ==
    [raised |-> FALSE, dict |-> c.kind = "object"]

\* bool(last) of a dict: it holds a key
HoldsKey(c) ==
    \/ c.extra > 0
    \/ \E sh \in { c.profile_shape, c.notes_shape, c.visitor_shape,
                   c.reservation_shape, c.sales_shape } : sh # "absent"

\* MultiDomainBot._seed_state_from_snapshot on any dict json.loads gives
SeedFromPrior(st, c) ==
    LET profile == c.profile_shape = "object"
        name    == JLoadKey(c.name)
        address == JLoadKey(c.address)
    IN  [st EXCEPT
           !.profile.name = IF profile /\ IsStr(name) THEN name ELSE @,
           !.profile.address = IF profile /\ IsStr(address) THEN address
                               ELSE @,
           !.notes = IF c.notes_shape = "array"
                     THEN [i \in 1..Len(c.notes) |-> PyStr(JLoad(c.notes[i]))]
                     ELSE @,
           !.visitor_state = IF c.visitor_shape = "object"
                             THEN LoadVisitor(c.visitor) ELSE @,
           !.reservation_state = IF c.reservation_shape = "object"
                                 THEN LoadReservation(c.reservation) ELSE @,
           !.sales_state = IF c.sales_shape = "object"
                           THEN LoadSales(c.sales) ELSE @]

InitSeed ==
    /\ InitMana
    /\ history_limit = 0
    /\ InitNoDoctor
    /\ InitNoCapture
    /\ first_run = NoFirstRun
    /\ routed = NoRouted
    /\ \E c \in PriorFiles : seeding = [NoSeeding EXCEPT !.prior = c]

\* __init__ from ConversationState() to the call of start_new_session
SeedCall ==
    /\ ~seeding.done
    /\ LET last == LoadLastSnapshot(seeding.prior)
       IN  seeding' =
             [seeding EXCEPT
                !.done = TRUE,
                !.raised = last.raised,
                !.state = IF ~last.raised /\ last.dict /\ HoldsKey(seeding.prior)
                          THEN SeedFromPrior(NewState, seeding.prior)
                          ELSE NewState]
    /\ UNCHANGED <<clientVars, botVars, cycle, doctorVars, captureVars,
                   first_run, routed>>

NextSeed == SeedCall

SpecSeed == InitSeed /\ [][NextSeed]_vars

\* the entry is a JSON string
IsJString(j) == j # JMissing /\ Head(j) = 34

\* C33: seeding never raises, whatever last_session.json holds: a file
\* that is missing, unreadable or no object leaves the state at its
\* defaults; of an object, the entries the seeding knows are copied when
\* their values have the right type, and every other entry leaves its
\* field of the state at its default.
C33_SeedingTakesAnyContent ==
    seeding.done =>
        LET c  == seeding.prior
            st == seeding.state
            profile == c.kind = "object" /\ c.profile_shape = "object"
        IN  /\ ~seeding.raised
            /\ c.kind # "object" => st = NewState
            /\ st.profile.name =
                 IF profile /\ IsJString(c.name) THEN Tail(c.name) ELSE None
            /\ st.profile.address =
                 IF profile /\ IsJString(c.address) THEN Tail(c.address)
                 ELSE None
            /\ IF c.kind = "object" /\ c.notes_shape = "array"
               THEN /\ Len(st.notes) = Len(c.notes)
                    /\ \A i \in 1..Len(c.notes) :
                          /\ IsStr(st.notes[i])
                          /\ IsJString(c.notes[i]) =>
                                st.notes[i] = Tail(c.notes[i])
               ELSE st.notes = <<>>
            /\ DumpVisitor(st.visitor_state) =
                 IF c.kind = "object" /\ c.visitor_shape = "object"
                 THEN c.visitor ELSE DumpVisitor(NewState.visitor_state)
            /\ DumpReservation(st.reservation_state) =
                 IF c.kind = "object" /\ c.reservation_shape = "object"
                 THEN c.reservation
                 ELSE DumpReservation(NewState.reservation_state)
            /\ DumpSales(st.sales_state) =
                 IF c.kind = "object" /\ c.sales_shape = "object"
                 THEN c.sales ELSE DumpSales(NewState.sales_state)
            /\ st.produce_state = NewState.produce_state
            /\ st.history = <<>>

\* a start on an object with a name, sales state, a number for
\* "reservation" and a key the seeding does not know
C33_Witness ==
    /\ seeding.done
    /\ seeding.prior.kind = "object"
    /\ seeding.prior.extra = 1
    /\ seeding.prior.reservation_shape = "number"
    /\ seeding.prior.name = JName
    /\ seeding.state.profile.name = Tail(JName)
    /\ seeding.state.reservation_state = NewState.reservation_state
    /\ seeding.state.sales_state # NewState.sales_state

----------------------------------------------------------------------------
(* The claims about what the skills write and return, under SpecSkills. *)

\* a call of a skill's handle has just been made
SkillStep == pc = "idle" /\ n_turns' = n_turns + 1

\* C34: a skill's handle writes only profile, notes and the state of its
\* own domain: reservation leaves sales, produce and visitor state as
\* they are, sales leaves reservation, produce and visitor state, visitor
\* leaves reservation, sales and produce state, smalltalk and produce
\* leave every per-domain state, and no skill writes history.
C34_SkillWritesOwnDomainOnly ==
    [][SkillStep =>
          LET domain == result'.domain
              same(field) == state'[field] = state[field]
          IN  /\ same("history")
              /\ same("produce_state")
              /\ outcome' = "raised" => state' = state
              /\ domain = "reservation" =>
                    same("sales_state") /\ same("visitor_state")
              /\ domain = "sales" =>
                    same("reservation_state") /\ same("visitor_state")
              /\ domain = "visitor" =>
                    same("reservation_state") /\ same("sales_state")
              /\ domain \in { "smalltalk", "produce" } =>
                    /\ same("reservation_state")
                    /\ same("sales_state")
                    /\ same("visitor_state")]_vars

\* the reservation skill, the sales skill and the visitor skill have each
\* written the state of their domain
C34_Witness ==
    /\ outcome = "returned"
    /\ state.reservation_state # NewState.reservation_state
    /\ state.sales_state # NewState.sales_state
    /\ state.visitor_state # NewState.visitor_state
    /\ state.history = <<>>

\* C35: for every payload, with keys missing or values of unexpected
\* types, a skill's handle returns a result with a reply that is not
\* empty, and does not raise.
C35_SkillNeverRaises ==
    [][SkillStep => (outcome' = "returned" /\ result'.reply # <<>>)]_vars

----------------------------------------------------------------------------
(* The skills of MultiDomainBot and the turns of VoiceDoctorBot, each on  *)
(* their own: the writers of profile and notes.                           *)

NextProfiles ==
    \/ ManaAlone /\ Construct
    \/ ManaAlone /\ SK_Reservation
    \/ ManaAlone /\ SK_Sales
    \/ ManaAlone /\ SK_SmallTalk
    \/ ManaAlone /\ SK_Produce
    \/ ManaAlone /\ SK_Visitor
    \/ DoctorAlone /\ VD_Construct
    \/ DoctorAlone /\ VD_Exit
    \/ DoctorAlone /\ VD_Run
    \/ DoctorAlone /\ VD_Segment

SpecProfiles == InitSkills /\ [][NextProfiles]_vars

\* a profile changes only by fields taking a non-empty string
OverwrittenByText(before, after) ==
    \A field \in { "name", "address" } :
        after[field] # before[field] =>
            /\ IsStr(after[field])
            /\ after[field] # <<>>

\* C36: throughout a session notes grows at its end only, and a profile
\* field changes only to a non-empty string other than the one it holds:
\* it is never cleared and never replaced by an empty value.
C36_NotesAppendOnlyProfileByText ==
    [][/\ n_sessions' = n_sessions =>
             /\ IsPrefix(state.notes, state'.notes)
             /\ OverwrittenByText(state.profile, state'.profile)
       /\ (bot.alive /\ bot'.alive /\ bot'.session_name = bot.session_name) =>
             /\ IsPrefix(bot.notes, bot'.notes)
             /\ OverwrittenByText(bot.profile, bot'.profile)]_vars

\* a session of MultiDomainBot in which the name was set and then
\* replaced by another, with a note taken
C36_Witness ==
    /\ n_sessions > 0
    /\ state.profile.name = <<86>>
    /\ state.profile.address # None
    /\ state.notes # <<>>

----------------------------------------------------------------------------
(* The voice loops with Ctrl+C while they are capturing: loop_voice is in  *)
(* VoiceIO.record, run_realtime at audio_queue.get().                      *)

\* the iteration of loop_voice that Ctrl+C ends
Interrupted ==
    [NoCycle EXCEPT !.source = "voice", !.capture = "interrupted",
                    !.kind = "interrupted"]

\* a loop_voice that lets KeyboardInterrupt go on
LV_InterruptRaises ==
    /\ pc = "idle"
    /\ cycle.kind \notin {"crashed", "intro"}
    /\ pc' = "down"
    /\ cycle' = [Interrupted EXCEPT !.kind = "crashed"]
    /\ UNCHANGED <<clientVars, state, history_limit, storeVars, clock,
                   turnVars, boundary, n_turns, n_sessions>>
    /\ UNCHANGED extVars

\* loop_voice: KeyboardInterrupt leaves record_push_to_talk, whose except
\* is for Exception, and VoiceIO.record; the loop catches it and breaks
LV_Interrupt ==
    /\ pc = "idle"
    /\ cycle.kind \notin {"crashed", "intro"}
    /\ pc' = "down"
    /\ cycle' = Interrupted
    /\ UNCHANGED <<clientVars, state, history_limit, storeVars, clock,
                   turnVars, boundary, n_turns, n_sessions>>
    /\ UNCHANGED extVars

\* run_realtime: KeyboardInterrupt at audio_queue.get() closes the stream
\* and is caught after it; buffer keeps what the loop had collected and
\* did not hand on
RT_Interrupt ==
    /\ cpc = "realtime"
    /\ cpc' = "realtime_ended"
    /\ audio_queue' = <<>>
    /\ UNCHANGED <<config, mic, heard, buffer, total_frames, silence_since,
                   now, audio, segment, lagged, failed, taken_at, pending,
                   echo>>
    /\ UNCHANGED <<clientVars, botVars, cycle, doctorVars, ghostVars>>

NextInterrupts ==
    \/ NextTurns
    \/ ManaTurns /\ LV_Interrupt
    \/ RT_Interrupt

SpecInterrupts == InitTurns /\ [][NextInterrupts]_vars

\* C37: Ctrl+C while the loop is capturing ends the loop without an
\* exception and without another write to the turn log, the history or
\* the snapshot; what was collected of an utterance is not logged.
C37_InterruptEndsLoopQuietly ==
    [][/\ cycle'.capture = "interrupted" /\ cycle.capture # "interrupted" =>
             /\ cycle'.kind = "interrupted"
             /\ pc' = "down"
             /\ log_file' = log_file
             /\ snapshot_file' = snapshot_file
             /\ state'.history = state.history
       /\ (cpc = "realtime" /\ cpc' = "realtime_ended") =>
             /\ data_dir' = data_dir
             /\ bot' = bot
             /\ segment' = segment
       /\ cpc = "realtime_ended" =>
             /\ cpc' = "realtime_ended"
             /\ data_dir' = data_dir
             /\ bot' = bot]_vars

\* run_realtime was interrupted with speech collected and no segment
\* handed on: nothing of it is in the log
C37_Witness ==
    /\ cpc = "realtime_ended"
    /\ buffer # <<>>
    /\ segment = <<>>
    /\ DoctorUserLines = <<>>

----------------------------------------------------------------------------
(* The claim about is_speaking, under SpecTurns. *)

\* C38: after every call of _speak, whether it returned or raised,
\* is_speaking is false; it is true only while a reply is synthesized or
\* played, so after every attempt to render a reply the chunks of the
\* microphone go into the queue again.
C38_SpeakingOnlyWhileRendering ==
    /\ [](bot.is_speaking => cpc = "realtime_speaking")
    /\ [][(cpc = "realtime_speaking" /\ cpc' # cpc) => ~bot'.is_speaking]_vars
    /\ [][(cpc \in RealtimeStates \ { "realtime_speaking" }
             /\ heard' # heard) =>
            audio_queue' = Append(audio_queue, Head(mic))]_vars

\* _speak raised in a turn of run_realtime, and is_speaking is reset
C38_Witness ==
    /\ cpc = "realtime_raised"
    /\ cycle.speak = "raises"
    /\ ~bot.is_speaking
    /\ echo # {}

----------------------------------------------------------------------------
(* VoiceDoctorBot over several turns of one data directory: a request to  *)
(* test the sound after the profile was filled.                            *)

\* the turns of VoiceDoctorBot this specification follows
MaxTestTurns == 2

TS_Run == Len(DoctorUserLines) < MaxTestTurns /\ RunOnce

TS_Segment == Len(DoctorUserLines) < MaxTestTurns /\ SegmentOnce

NextTest ==
    \/ VD_Construct
    \/ VD_Exit
    \/ TS_Run
    \/ TS_Segment

SpecTest == Init /\ [][NextTest]_vars

\* a is what is left of b after dropping records from its front
IsSuffix(a, b) ==
    /\ Len(a) <= Len(b)
    /\ a = SubSeq(b, Len(b) - Len(a) + 1, Len(b))

\* C39: a turn whose transcript is a request to test the sound asks the
\* reasoning service nothing and leaves the profile, the notes, the known
\* clients and the snapshot file as they are; it adds the user record and,
\* once the fixed reply was spoken, the assistant record to the log and
\* the history, and nothing else.
C39_TestTurnTouchesLogOnly ==
    [][(/\ Len(DoctorUserLines') = Len(DoctorUserLines) + 1
        /\ DoctorUserLines'[Len(DoctorUserLines')].text = TestRequest) =>
          LET user == LogLine(bot.session_name, "user", TestRequest,
                              TokNone, TokNone)
              assistant == LogLine(bot.session_name, "assistant",
                                   ReplyPureTest, TokNone, TokNone)
              spoken == cycle'.speak = "ok"
              lines == IF spoken THEN <<user, assistant>> ELSE <<user>>
              records == [i \in 1..Len(lines) |->
                            [role |-> lines[i].role, text |-> lines[i].text]]
          IN  /\ cycle'.reason = "skipped"
              /\ cycle'.speak \in { "ok", "raises" }
              /\ bot'.profile = bot.profile
              /\ bot'.notes = bot.notes
              /\ bot'.known_clients = bot.known_clients
              /\ data_dir'.profile_file = data_dir.profile_file
              /\ data_dir'.clients_file = data_dir.clients_file
              /\ data_dir'.session_meta_file = data_dir.session_meta_file
              /\ data_dir'.session_log = data_dir.session_log \o lines
              /\ IsSuffix(bot'.history, bot.history \o records)
              /\ bot' = [bot EXCEPT !.history = bot'.history]]_vars

\* the sound was tested in a session whose profile holds a name, which is
\* in the known clients and in the snapshot file
C39_Witness ==
    /\ cycle.kind = "turn"
    /\ cycle.reason = "skipped"
    /\ Len(DoctorUserLines) = 2
    /\ DoctorUserLines[2].text = TestRequest
    /\ bot.profile.name # None
    /\ bot.profile.name \in bot.known_clients
    /\ data_dir.profile_file.exists
    /\ data_dir.profile_file.session = JDump(bot.session_name)

----------------------------------------------------------------------------
(* The claim about the amplitude of the lowest int16, under SpecTrim. *)

\* the samples the first call of the trim cut off its argument
CutOff == SubSeq(heard[1], Len(audio) + 1, Len(heard[1]))

\* C40: the trim takes every int16 sample, -32768 too, at its true
\* absolute amplitude: no sample it cuts off as silence has a magnitude
\* above the trim threshold.
C40_NoLoudSampleCutOff ==
    cpc = "trimmed" =>
        \A i \in 1..Len(CutOff) :
            Magnitude(CutOff[i]) <= config.silence_trim_threshold

====
